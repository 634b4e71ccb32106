----------------------------- MODULE MCGLRParser -----------------------------
(***************************************************************************)
(* GLRParser on the example languages: their tables as a generated parser  *)
(* has them in C and as the parser finds them again behind cmd/ts2go and   *)
(* compact.go, the inputs, and what a parse of these has to find.          *)
(***************************************************************************)
EXTENDS GLRParser, ParseTables, ExampleLanguages
LOCAL INSTANCE SequencesExt
LOCAL INSTANCE FiniteSetsExt
LOCAL INSTANCE Functions

-----------------------------------------------------------------------------
(* Tables: state 0 of C is the state of errors, a language begins in 1.    *)

\* The same function, which TLC computes as a whole and keeps.
Computed(f) == f @@ << >>
\* The members of a set, in some order.
Listed(set) == FoldSet(LAMBDA x, seq : Append(seq, x), << >>, set)

Nonterminals(t) == {cell[2] : cell \in DOMAIN t.goto} \cup {r.left : r \in t.rules}
TokensOf(t)     == {cell[2] : cell \in DOMAIN t.action} \ {"end"}
SymbolsOf(t)    == <<"end">> \o Listed(TokensOf(t)) \o Listed(Nonterminals(t))
StatesOf(t)       == {cell[1] : cell \in DOMAIN t.action} \cup {cell[1] : cell \in DOMAIN t.goto}
                   \cup {t.goto[cell] : cell \in DOMAIN t.goto}
InC(state)      == state + 1

\* ts_parse_actions: nothing at 0, RECOVER() at 1, and then a group for each
\* list of actions; every other header has no index, and its actions follow
\* on lines of their own.
Placed(groups) ==
    [k \in DOMAIN groups |->
        [acts |-> groups[k],
         at   |-> 3 + FoldFunctionOnSet(LAMBDA acts, n : n + 1 + Len(acts), 0, groups, 1 .. k - 1)]]
Groups(t) == Placed(Listed(Range(t.action)))
IndexOf(groups, acts) == groups[CHOOSE k \in DOMAIN groups : groups[k].acts = acts].at

ReduceArgs(a, form) ==
    CASE form = 0 /\ a.prec = 0 -> <<a.symbol, a.count>>
      [] form = 1 -> <<a.symbol, a.count, [key |-> "", number |-> a.prec], [key |-> "", number |-> 7]>>
      [] OTHER    -> <<a.symbol, a.count, [key |-> "production_id", number |-> 7],
                       [key |-> "dynamic_precedence", number |-> a.prec]>>
Call(a, form) ==
    CASE a.type = "shift" /\ a.extra -> [macro |-> "SHIFT_EXTRA", args |-> << >>]
      [] a.type = "shift"  -> [macro |-> IF form = 2 THEN "SHIFT_REPEAT" ELSE "SHIFT", args |-> <<InC(a.state)>>]
      [] a.type = "reduce" -> [macro |-> "REDUCE", args |-> ReduceArgs(a, form)]
      [] a.type = "accept" -> [macro |-> "ACCEPT_INPUT", args |-> << >>]
Header(index, n)     == {[index |-> index, count |-> n]}
Line(header, calls)  == [header |-> header, calls |-> calls]
Calls(acts, form) == [j \in DOMAIN acts |-> Call(acts[j], form)]
OneByOne(calls)   == [j \in DOMAIN calls |-> Line({}, << calls[j] >>)]
GroupLines(group, k) ==
    IF k % 2 = 0 THEN << Line(Header({group.at}, Len(group.acts)), Calls(group.acts, k % 3)) >>
    ELSE << Line(Header({}, Len(group.acts)), << >>) >> \o OneByOne(Calls(group.acts, k % 3))
ActionLines(groups) ==
    << Line(Header({0}, 0), << >>), Line(Header({1}, 1), << [macro |-> "RECOVER", args |-> << >>] >>) >>
    \o FlattenSeq([k \in DOMAIN groups |-> GroupLines(groups[k], k)])

\* The entries of a state by symbol; the rows of state 2 are plain numbers.
Cells(t, groups, state) ==
    [sym \in {c[2] : c \in {d \in DOMAIN t.action : InC(d[1]) = state}} |->
        [macro |-> IF state = 2 THEN "" ELSE "ACTIONS", number |-> IndexOf(groups, t.action[<<state - 1, sym>>])]]
    @@ [sym \in {c[2] : c \in {d \in DOMAIN t.goto : InC(d[1]) = state}} |->
        [macro |-> IF state = 2 THEN "" ELSE "STATE", number |-> InC(t.goto[<<state - 1, sym>>])]]
    @@ IF state = 0 THEN [sym \in TokensOf(t) |-> [macro |-> "ACTIONS", number |-> 1]] ELSE << >>

Written(kind, number) == [kind |-> kind, number |-> number]
SmallGroup(v, names) ==
    <<Written("macro", v.number), Written("number", Len(names))>>
    \o [i \in DOMAIN names |-> [kind |-> "name", name |-> names[i]]]
SmallGroups(cells, values) ==
    <<Written("number", Len(values))>>
    \o FlattenSeq([i \in DOMAIN values |->
            SmallGroup(values[i], Listed({sym \in DOMAIN cells : cells[sym] = values[i]}))])
SmallState(cells) == SmallGroups(cells, Listed(Range(cells)))
Offset(small, i)  == FoldFunctionOnSet(LAMBDA s, n : n + Len(s), 0, small, 1 .. i - 1)

\* The rows of the dense table, and the states of the small one.
Source(t, groups, rows, small) ==
    [symbols |-> SymbolsOf(t), tokenCount |-> 1 + Cardinality(TokensOf(t)),
     stateCount |-> Cardinality(DOMAIN rows) + Len(small), largeStateCount |-> IF small = << >> THEN 0 ELSE Cardinality(DOMAIN rows),
     rows |-> rows,
     small |-> FlattenSeq([i \in DOMAIN small |-> <<Written("index", Offset(small, i))>> \o small[i]]),
     smallMap |-> Computed([state \in {Cardinality(DOMAIN rows) + i - 1 : i \in DOMAIN small} |->
                               Offset(small, state - Cardinality(DOMAIN rows) + 1)]),
     actions |-> ActionLines(groups)]

Split(t, groups, cells, dense) ==
    Source(t, groups, Computed([state \in 0 .. dense - 1 |-> cells[state]]),
           [i \in 1 .. Cardinality(DOMAIN cells) - dense |-> SmallState(cells[dense + i - 1])])

\* A generated parser with so many states in the dense table; 0 are all.
CellTable(t, groups, count) == Computed([state \in 0 .. count - 1 |-> Cells(t, groups, state)])
Grouped(t, groups, count, large) ==
    Split(t, groups, CellTable(t, groups, count), IF large = 0 THEN count ELSE large)
InSource(t, large) == Grouped(t, Groups(t), Max(StatesOf(t)) + 2, large)
-----------------------------------------------------------------------------
\* What the parser finds in the language that has been made of a source.
Interned(built) ==
    [built EXCEPT !.parseTable = Computed(InternUint16Rows(Computed(built.parseTable))),
        !.smallParseTableMap = Computed(built.smallParseTableMap), !.parseActions = Computed(built.parseActions)]
Loaded(source) == Interned(BuildLanguage(source))

Name(source, sym) == source.symbols[sym + 1]
Found(source, a) ==
    CASE a.type = "shift"   -> [type |-> "shift", state |-> a.state, extra |-> a.extra]
      [] a.type = "reduce"  -> [type |-> "reduce", symbol |-> Name(source, a.symbol), count |-> a.count, prec |-> a.prec]
      [] a.type = "accept"  -> [type |-> "accept"]
      [] a.type = "recover" -> [type |-> "recover", state |-> a.state]
\* The cell of a name among the cells with something in them.
CellOf(source, cells, n) == CHOOSE c \in cells : <<c[1], Name(source, c[2])>> = n
Named(source, cells)     == {<<c[1], Name(source, c[2])>> : c \in cells}
FoundAll(source, acts)   == Computed([k \in DOMAIN acts |-> Found(source, acts[k])])
ActionsAt(source, l, c)  == FoundAll(source, LookupAction(l, c[1], c[2]))
ActionTable(source, l, acting) ==
    Computed([n \in Named(source, acting) |-> ActionsAt(source, l, CellOf(source, acting, n))])
GotoAt(l, c) == LookupGoto(l, c[1], c[2])
GotoTable(source, l, going) ==
    Computed([n \in Named(source, going) |-> GotoAt(l, CellOf(source, going, n))])
CellsOf(l, symbols) == (0 .. l.stateCount - 1) \X symbols
FoundTables(t, source, l) ==
    [t EXCEPT !.initial = l.initialState,
        !.action = ActionTable(source, l, {c \in CellsOf(l, 0 .. l.tokenCount - 1) : LookupAction(l, c[1], c[2]) # << >>}),
        !.goto   = GotoTable(source, l, {c \in CellsOf(l, l.tokenCount .. l.symbolCount - 1) : GotoAt(l, c) # 0})]
LoadedTables(t, source) == FoundTables(t, source, Loaded(source))
Compiled(t, large)      == LoadedTables(t, InSource(t, large))

\* Those with a recovery into a state cannot be written in C, and those of the
\* tests are built by hand.
BuiltByHand == {"Arithmetic", "Recovering", "Ambiguous", "Ambiguous5"}
AllDense    == {"Commented", "Fork", "Spinning"}
CompiledFrom(tables) ==
    Computed([name \in DOMAIN tables |->
        IF name \in BuiltByHand THEN tables[name]
        ELSE Compiled(tables[name], IF name \in AllDense THEN 0 ELSE 3)])
CompiledTables == CompiledFrom(Tables)
AllTables == CompiledTables
-----------------------------------------------------------------------------
(* Inputs. *)

AllSymbols ==
    {EndSymbol, Gap, ErrorSymbol, "none", ";"}
    \cup {"n", "+", "*", "#", "x", "a", "b", "c", "d", "e", "f"}
    \cup {"A", "B", "C", "E", "S", "T"}

\* The inputs of at most n tokens in a language, behind some first tokens.
Inputs(name, before, n) ==
    {[lang |-> name, input |-> before \o w] :
        w \in UNION {[1 .. k -> Tables[name].alphabet] : k \in 0 .. n}}
Chain(k) ==
    [lang |-> "Prefix",
     input |-> [i \in 1 .. k + 2 |-> IF i <= k THEN "+"
                                    ELSE IF i = k + 1 THEN "n" ELSE ";"]]

AllPrograms ==
    Inputs("Arithmetic", << >>, 5) \cup Inputs("Arithmetic", <<Gap>>, 2)
    \cup Inputs("Recovering", << >>, 4) \cup Inputs("Commented", << >>, 4)
    \cup Inputs("Ambiguous", << >>, 2) \cup Inputs("Ambiguous5", << >>, 2)
    \cup Inputs("Twins", << >>, 1) \cup Inputs("Fork", << >>, 4)
    \cup Inputs("Wide", << >>, 3) \cup Inputs("Shared", << >>, 3)
    \cup Inputs("Infix", << >>, 5) \cup Inputs("Prefix", << >>, 3)
    \cup {Chain(k) : k \in 2 .. 5} \cup Inputs("Spinning", << >>, 1)

-----------------------------------------------------------------------------
(* The reference for what a parse should find: the derivations of a word   *)
(* from the productions of a context-free grammar, with the dynamic        *)
(* precedence each derivation adds up.  Nothing here knows about parse     *)
(* tables, stacks or rounds.  A production is a record [left, right, prec].*)

\* An item: the first dot symbols of production prod derive the word between
\* positions from and to, with a total precedence of score.
Item(prod, dot, from, to, score) ==
    [prod |-> prod, dot |-> dot, from |-> from, to |-> to, score |-> score]

Complete(item) == item.dot = Len(item.prod.right)

Advances(word, items) ==
    LET overToken(i) ==
            IF /\ ~ Complete(i) /\ i.to <= Len(word)
               /\ i.prod.right[i.dot + 1] = word[i.to]
            THEN {Item(i.prod, i.dot + 1, i.from, i.to + 1, i.score)}
            ELSE {}
        overPhrase(i) ==
            IF Complete(i) THEN {}
            ELSE {Item(i.prod, i.dot + 1, i.from, c.to,
                       i.score + c.score + c.prod.prec) :
                  c \in {c \in items : /\ Complete(c) /\ c.from = i.to
                                       /\ c.prod.left = i.prod.right[i.dot + 1]}}
    IN  UNION {overToken(i) \cup overPhrase(i) : i \in items}

RECURSIVE Closure(_, _)
Closure(word, items) ==
    LET more == Advances(word, items)
    IN  IF more \subseteq items THEN items ELSE Closure(word, items \cup more)

\* The precedences of the derivations of word from symbol start.
Derivations(prods, start, word) ==
    {i.score + i.prod.prec :
        i \in {i \in Closure(word, {Item(p, 0, at, at, 0) :
                                       p \in prods, at \in 1 .. Len(word) + 1}) :
                 /\ Complete(i) /\ i.prod.left = start
                 /\ i.from = 1 /\ i.to = Len(word) + 1}}

-----------------------------------------------------------------------------
\* What the grammar says of the input: extras and gaps are no part of it.
Word == SelectSeq(input, LAMBDA x : x \notin {"#", Gap})
Readings == Derivations(lang.rules, lang.start, Word)
IsSentence == Readings # {}
Highest == CHOOSE p \in Readings : \A q \in Readings : q <= p

Clean(root) == ~ root.error
Whole(root) == \A k \in 1 .. Len(input) : input[k] # Gap => k \in root.tokens

ParsedAsTold ==
    \A root \in tree : Clean(root) /\ Whole(root) /\ root.score = Highest

\* A sentence of the language is parsed without an error, as a whole, and in
\* the reading of highest dynamic precedence, as Parser's comment says
\* (parser.go:13-16), unless the parse took one of the shortcuts counted in
\* incidents: stacks merged on their top state alone, dropped at the cap,
\* stopped at a limit, out of step with the token, or left behind by the
\* first accept.
SentencesParseCleanly ==
    phase = "done" /\ incidents = {} /\ IsSentence => tree # {} /\ ParsedAsTold

\* What is not a sentence is not reported as a clean tree of a phrase; the
\* one exception is a single token left on the stack when the input ends.
OnlySentencesParseCleanly ==
    phase = "done" /\ incidents = {} /\ ~ IsSentence =>
        \A root \in tree : Clean(root) => root.symbol \in lang.alphabet
=============================================================================
