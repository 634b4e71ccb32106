--------------------------- MODULE ExampleLanguages ---------------------------
(***************************************************************************)
(* Small languages as the runtime's tables have them.  The first ones are  *)
(* those of parser_test.go and glr_test.go; the others are the smallest    *)
(* ones in which two stacks meet, part, or fall out of step, and in which  *)
(* a subtree can be taken over from an old tree.                           *)
(***************************************************************************)
EXTENDS Integers, Sequences, TLC

S(state)       == << [type |-> "shift", state |-> state, extra |-> FALSE] >>
X(state)       == << [type |-> "shift", state |-> state, extra |-> TRUE] >>
R(sym, n, p)   == << [type |-> "reduce", symbol |-> sym, count |-> n, prec |-> p] >>
Acc            == << [type |-> "accept"] >>
Rec(state)     == << [type |-> "recover", state |-> state] >>

\* The same actions under each of several lookaheads.
On(state, symbols, acts) == [cell \in {state} \X symbols |-> acts]
Rule(left, right, prec) == [left |-> left, right |-> right, prec |-> prec]
Language(action, goto, rules, start, alphabet) ==
    [initial |-> 0, action |-> action, goto |-> goto, rules |-> rules,
     start |-> start, alphabet |-> alphabet]
G(state, symbol, target) == (<<state, symbol>> :> target)

\* buildArithmeticLanguage: E -> n | E + n.
SumRules == {Rule("E", <<"n">>, 0), Rule("E", <<"E", "+", "n">>, 0)}
SumTable(all) ==
    On(0, {"n"}, S(1)) @@ On(1, all, R("E", 1, 0))
    @@ On(2, {"end"}, Acc) @@ On(2, {"+"}, S(3))
    @@ On(3, {"n"}, S(4)) @@ On(4, all, R("E", 3, 0))
Arithmetic == Language(SumTable({"end", "n", "+"}), G(0, "E", 2), SumRules,
                       "E", {"n", "+"})

\* buildArithmeticRecoverLanguage: "*" recovers from a finished expression.
Recovering == Language(On(2, {"*"}, Rec(3)) @@ SumTable({"end", "n", "+", "*"}),
                       G(0, "E", 2), SumRules, "E", {"n", "+", "*"})

\* The arithmetic language with a comment as an extra in every state.
Commented == Language(On(0, {"#"}, X(0)) @@ On(1, {"#"}, X(1))
                      @@ On(2, {"#"}, X(2)) @@ On(3, {"#"}, X(3))
                      @@ On(4, {"#"}, X(4)) @@ SumTable({"end", "n", "+"}),
                      G(0, "E", 2), SumRules, "E", {"n", "+", "#"})

\* buildAmbiguousLanguage: A -> x and B -> x lead to the same state.
TwoReadings(lookaheads, p, q) == On(1, lookaheads, R("A", 1, p) \o R("B", 1, q))
XisAorB(p, q) == {Rule("A", <<"x">>, p), Rule("B", <<"x">>, q)}
Ambiguous(p, q) ==
    Language(On(0, {"x"}, S(1)) @@ TwoReadings({"end", "x"}, p, q)
             @@ On(2, {"end"}, Acc),
             G(0, "A", 2) @@ G(0, "B", 2),
             XisAorB(p, q) \cup {Rule("S", <<"A">>, 0), Rule("S", <<"B">>, 0)},
             "S", {"x"})

\* The same with a state for each reading, both of which accept.
Twins ==
    Language(On(0, {"x"}, S(1)) @@ TwoReadings({"end", "x"}, 0, 5)
             @@ On(2, {"end"}, Acc) @@ On(3, {"end"}, Acc),
             G(0, "A", 2) @@ G(0, "B", 3),
             XisAorB(0, 5) \cup {Rule("S", <<"A">>, 0), Rule("S", <<"B">>, 0)},
             "S", {"x"})

\* S -> A c | B c d: the second token after x tells the readings apart.
Fork ==
    Language(On(0, {"x"}, S(1)) @@ TwoReadings({"c"}, 0, 0)
             @@ On(2, {"c"}, S(4)) @@ On(3, {"c"}, S(5))
             @@ On(4, {"end"}, R("S", 2, 0)) @@ On(5, {"d"}, S(6))
             @@ On(6, {"end"}, R("S", 3, 0)) @@ On(7, {"end"}, Acc),
             G(0, "A", 2) @@ G(0, "B", 3) @@ G(0, "S", 7),
             XisAorB(0, 0) \cup {Rule("S", <<"A", "c">>, 0),
                                 Rule("S", <<"B", "c", "d">>, 0)},
             "S", {"x", "c", "d"})

\* Three readings: S -> A c | B c a | C c b.
Wide ==
    Language(On(0, {"x"}, S(1))
             @@ On(1, {"c"}, R("A", 1, 0) \o R("B", 1, 0) \o R("C", 1, 0))
             @@ On(2, {"c"}, S(5)) @@ On(3, {"c"}, S(6)) @@ On(4, {"c"}, S(7))
             @@ On(5, {"end"}, R("S", 2, 0)) @@ On(6, {"a"}, S(8))
             @@ On(7, {"b"}, S(9)) @@ On(8, {"end"}, R("S", 3, 0))
             @@ On(9, {"end"}, R("S", 3, 0)) @@ On(10, {"end"}, Acc),
             G(0, "A", 2) @@ G(0, "B", 3) @@ G(0, "C", 4) @@ G(0, "S", 10),
             XisAorB(0, 0) \cup {Rule("C", <<"x">>, 0),
                Rule("S", <<"A", "c">>, 0), Rule("S", <<"B", "c", "a">>, 0),
                Rule("S", <<"C", "c", "b">>, 0)},
             "S", {"x", "c", "a", "b"})

\* S -> A T e | B T f with T -> c: both readings pass through state 4.
Shared ==
    Language(On(0, {"x"}, S(1)) @@ TwoReadings({"c"}, 0, 0)
             @@ On(2, {"c"}, S(4)) @@ On(3, {"c"}, S(4))
             @@ On(4, {"e", "f"}, R("T", 1, 0))
             @@ On(5, {"e"}, S(7)) @@ On(6, {"f"}, S(8))
             @@ On(7, {"end"}, R("S", 3, 0)) @@ On(8, {"end"}, R("S", 3, 0))
             @@ On(9, {"end"}, Acc),
             G(0, "A", 2) @@ G(0, "B", 3) @@ G(2, "T", 5) @@ G(3, "T", 6)
             @@ G(0, "S", 9),
             XisAorB(0, 0) \cup {Rule("T", <<"c">>, 0),
                Rule("S", <<"A", "T", "e">>, 0), Rule("S", <<"B", "T", "f">>, 0)},
             "S", {"x", "c", "e", "f"})

\* E -> E + E | + E | n, with a shift and a reduction under "+".
Infix ==
    Language(On(0, {"n"}, S(1)) @@ On(0, {"+"}, S(2))
             @@ On(1, {"end", "+"}, R("E", 1, 0))
             @@ On(2, {"n"}, S(1)) @@ On(2, {"+"}, S(2))
             @@ On(3, {"end"}, Acc) @@ On(3, {"+"}, S(5))
             @@ On(4, {"end"}, R("E", 2, 0)) @@ On(4, {"+"}, S(5) \o R("E", 2, 0))
             @@ On(5, {"n"}, S(1)) @@ On(5, {"+"}, S(2))
             @@ On(6, {"end"}, R("E", 3, 0)) @@ On(6, {"+"}, S(5) \o R("E", 3, 0)),
             G(0, "E", 3) @@ G(2, "E", 4) @@ G(5, "E", 6),
             {Rule("E", <<"n">>, 0), Rule("E", <<"+", "E">>, 0),
              Rule("E", <<"E", "+", "E">>, 0)},
             "E", {"n", "+"})

\* S -> E ; with E -> + E | n: a chain of reductions before one ";".
Prefix ==
    Language(On(0, {"n"}, S(1)) @@ On(0, {"+"}, S(2)) @@ On(1, {";"}, R("E", 1, 0))
             @@ On(2, {"n"}, S(1)) @@ On(2, {"+"}, S(2))
             @@ On(3, {";"}, R("E", 2, 0)) @@ On(4, {";"}, S(5))
             @@ On(5, {"end"}, R("S", 2, 0)) @@ On(6, {"end"}, Acc),
             G(0, "E", 4) @@ G(2, "E", 3) @@ G(0, "S", 6),
             {Rule("E", <<"n">>, 0), Rule("E", <<"+", "E">>, 0),
              Rule("S", <<"E", ";">>, 0)},
             "S", {"n", "+", ";"})

\* A reduction of nothing that stays where it is, as a broken table has it.
Spinning == Language(On(0, {"end"}, R("E", 0, 0)), G(1, "E", 1), {}, "E", {"n"})

\* E -> ( E ) | n: a phrase means the same in two states.
Nested ==
    Language(On(0, {"n"}, S(1)) @@ On(0, {"("}, S(2)) @@ On(1, {")", "end"}, R("E", 1, 0))
             @@ On(2, {"n"}, S(1)) @@ On(2, {"("}, S(2)) @@ On(3, {"end"}, Acc)
             @@ On(4, {")"}, S(5)) @@ On(5, {")", "end"}, R("E", 3, 0)),
             G(0, "E", 3) @@ G(2, "E", 4),
             {Rule("E", <<"n">>, 0), Rule("E", <<"(", "E", ")">>, 0)},
             "E", {"n", "(", ")"})

\* S -> I | S I with I -> n ;: the first item leads to another state.
Items ==
    Language(On(0, {"n"}, S(1)) @@ On(1, {";"}, S(2))
             @@ On(2, {"n", "end"}, R("I", 2, 0)) @@ On(3, {"n", "end"}, R("S", 1, 0))
             @@ On(4, {"n"}, S(1)) @@ On(4, {"end"}, Acc)
             @@ On(5, {"n", "end"}, R("S", 2, 0)),
             G(0, "I", 3) @@ G(0, "S", 4) @@ G(4, "I", 5),
             {Rule("I", <<"n", ";">>, 0), Rule("S", <<"I">>, 0), Rule("S", <<"S", "I">>, 0)},
             "S", {"n", ";"})

\* L -> n | n + L: what follows a number decides whether it is the last one.
Rights ==
    Language(On(0, {"n"}, S(1)) @@ On(1, {"+"}, S(2)) @@ On(1, {"end"}, R("L", 1, 0))
             @@ On(2, {"n"}, S(1)) @@ On(3, {"end"}, R("L", 3, 0)) @@ On(4, {"end"}, Acc),
             G(0, "L", 4) @@ G(2, "L", 3),
             {Rule("L", <<"n">>, 0), Rule("L", <<"n", "+", "L">>, 0)},
             "L", {"n", "+"})

\* E -> T | E / T with T -> n | pattern, where a pattern is /.../.
Quotients ==
    Language(On(0, {"n"}, S(1)) @@ On(0, {"pattern"}, S(2))
             @@ On(1, {"/", "end"}, R("T", 1, 0)) @@ On(2, {"/", "end"}, R("T", 1, 0))
             @@ On(3, {"/", "end"}, R("E", 1, 0)) @@ On(4, {"end"}, Acc) @@ On(4, {"/"}, S(5))
             @@ On(5, {"n"}, S(1)) @@ On(5, {"pattern"}, S(2)) @@ On(6, {"/", "end"}, R("E", 3, 0)),
             G(0, "T", 3) @@ G(0, "E", 4) @@ G(5, "T", 6),
             {Rule("T", <<"n">>, 0), Rule("T", <<"pattern">>, 0), Rule("E", <<"T">>, 0),
              Rule("E", <<"E", "/", "T">>, 0)},
             "E", {"n", "/", "pattern"})

\* L -> I | L I with I -> open n close | ;: a quote opens and closes, and only
\* the scanner knows which.
Quoted ==
    Language(On(0, {"open"}, S(1)) @@ On(0, {";"}, S(6)) @@ On(1, {"n"}, S(2))
             @@ On(2, {"close"}, S(3)) @@ On(3, {"open", ";", "end"}, R("I", 3, 0))
             @@ On(4, {"open", ";", "end"}, R("L", 1, 0))
             @@ On(5, {"open"}, S(1)) @@ On(5, {";"}, S(6)) @@ On(5, {"end"}, Acc)
             @@ On(6, {"open", ";", "end"}, R("I", 1, 0))
             @@ On(7, {"open", ";", "end"}, R("L", 2, 0)),
             G(0, "I", 4) @@ G(0, "L", 5) @@ G(5, "I", 7),
             {Rule("I", <<"open", "n", "close">>, 0), Rule("I", <<";">>, 0),
              Rule("L", <<"I">>, 0), Rule("L", <<"L", "I">>, 0)},
             "L", {"open", "close", "n", ";"})

Tables ==
    [Arithmetic |-> Arithmetic, Recovering |-> Recovering,
     Commented |-> Commented, Ambiguous |-> Ambiguous(0, 5),
     Ambiguous5 |-> Ambiguous(5, 0), Twins |-> Twins, Fork |-> Fork,
     Wide |-> Wide, Shared |-> Shared, Infix |-> Infix, Prefix |-> Prefix,
     Spinning |-> Spinning]
=============================================================================
