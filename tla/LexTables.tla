------------------------------- MODULE LexTables -------------------------------
(***************************************************************************)
(* The tables of the lexer, as cmd/ts2go makes them from the C lexer of a  *)
(* generated parser (lex_dfa.go), and as they are compacted when they are  *)
(* written (compact.go) and when they are loaded (language_compact.go).    *)
(*                                                                         *)
(* A source is a record, its expressions sequences of C tokens:            *)
(*   sets       from names to the ranges of a TSCharacterRange array       *)
(*   functions  from names to what a character set function returns        *)
(*   cases      from states to the statements of ts_lex: a condition or    *)
(*              none, the macro called, and its argument                   *)
(*   keywords   the same of ts_lex_keywords; {} when there is none         *)
(* What may not be there is a set of at most one.                          *)
(***************************************************************************)
EXTENDS Lexer
LOCAL INSTANCE SequencesExt
LOCAL INSTANCE FiniteSetsExt

CONSTANTS
    MaxLookaheadRune,       \* utf8.MaxRune
    Literals,               \* The values of numbers and characters, by how they are written
    SpelledRunes,           \* The runes of texts, from 0 up
    TransitionInternLimit   \* 20000

ASSUME RunesAssumption == MaxLookaheadRune \in Nat /\ Len(SpelledRunes) = MaxLookaheadRune + 1
-----------------------------------------------------------------------------
(* Ranges of runes, as sequences.                                          *)

LexRange(lo, hi) == [lo |-> lo, hi |-> hi]
UniverseRanges   == <<LexRange(0, MaxLookaheadRune)>>
Clamped(r) == LexRange(Max({r.lo, 0}), Min({r.hi, MaxLookaheadRune}))
InBounds(r) == r.hi >= r.lo /\ r.hi >= 0 /\ r.lo <= MaxLookaheadRune

GrowWithoutMax(out, r) ==   \* faulty variant
    IF out # << >> /\ r.lo <= Last(out).hi + 1 THEN [out EXCEPT ![Len(out)].hi = r.hi] ELSE Append(out, r)
Grow(out, r) ==
    IF out # << >> /\ r.lo <= Last(out).hi + 1
    THEN [out EXCEPT ![Len(out)].hi = Max({@, r.hi})] ELSE Append(out, r)
NormalizeRanges(in) ==
    LET Before(r, s) == r.lo < s.lo \/ (r.lo = s.lo /\ r.hi < s.hi)
    IN  FoldLeft(Grow, << >>, SetToSortSeq({Clamped(r) : r \in {x \in ToSet(in) : InBounds(x)}}, Before))

UnionRanges(a, b) == NormalizeRanges(a \o b)

\* The one that ends first has nothing in common with what comes behind.
IntersectRanges(a, b) ==
    LET x == NormalizeRanges(a)
        y == NormalizeRanges(b)
        Common[i \in 1 .. Len(x) + 1, j \in 1 .. Len(y) + 1] ==
          IF i > Len(x) \/ j > Len(y) THEN << >>
          ELSE SelectSeq(<<LexRange(Max({x[i].lo, y[j].lo}), Min({x[i].hi, y[j].hi}))>>, LAMBDA r : r.lo <= r.hi)
               \o (IF x[i].hi < y[j].hi THEN Common[i + 1, j] ELSE Common[i, j + 1])
    IN  Common[1, 1]

ComplementRanges(in) ==
    LET r == NormalizeRanges(in)
        Gap(i) == LexRange(IF i = 1 THEN 0 ELSE r[i - 1].hi + 1,
                           IF i > Len(r) THEN MaxLookaheadRune ELSE r[i].lo - 1)
    IN  SelectSeq([i \in 1 .. Len(r) + 1 |-> Gap(i)], LAMBDA g : g.lo <= g.hi)

Comparisons == {"==", "!=", "<", "<=", ">", ">="}
InvertComparison(op) ==
    CASE op \in {"==", "!="} -> op
      [] op = "<" -> ">" [] op = "<=" -> ">=" [] op = ">" -> "<" [] op = ">=" -> "<="

RangesForComparison(op, literal) ==
    LET lit == Max({0, Min({literal, MaxLookaheadRune})})
    IN  CASE op = "==" -> <<LexRange(lit, lit)>>
          [] op = "!=" -> ComplementRanges(<<LexRange(lit, lit)>>)
          [] op = "<"  -> IF lit = 0 THEN << >> ELSE <<LexRange(0, lit - 1)>>
          [] op = "<=" -> <<LexRange(0, lit)>>
          [] op = ">"  -> IF lit = MaxLookaheadRune THEN << >> ELSE <<LexRange(lit + 1, MaxLookaheadRune)>>
          [] op = ">=" -> <<LexRange(lit, MaxLookaheadRune)>>
-----------------------------------------------------------------------------
(* Expressions.  A parse yields a value and the tokens behind it, in a set *)
(* of at most one.                                                         *)

Peek(tokens) == IF tokens = << >> THEN "end of expression" ELSE Head(tokens)
Parsed(value, rest) == [value |-> value, rest |-> rest]
IsLiteral(token) == token \in DOMAIN Literals
PastToken(tokens, token) == IF Peek(tokens) = token THEN {Tail(tokens)} ELSE {}

\* What a character set function returns: ranges of "c".
RECURSIVE SetOr(_), MoreSetOr(_), SetAnd(_), MoreSetAnd(_), SetPrimary(_)
SetOr(tokens)  == UNION {MoreSetOr(left) : left \in SetAnd(tokens)}
MoreSetOr(left) ==
    IF Peek(left.rest) # "||" THEN {left}
    ELSE UNION {MoreSetOr(Parsed(UnionRanges(left.value, right.value), right.rest)) :
                   right \in SetAnd(Tail(left.rest))}
SetAnd(tokens) == UNION {MoreSetAnd(left) : left \in SetPrimary(tokens)}
MoreSetAnd(left) ==
    IF Peek(left.rest) # "&&" THEN {left}
    ELSE UNION {MoreSetAnd(Parsed(IntersectRanges(left.value, right.value), right.rest)) :
                   right \in SetPrimary(Tail(left.rest))}

\* "c" and a literal; a literal out of bounds is only refused where it would
\* leave nothing.
SetRanges(op, val) ==
    CASE op = "<"  -> IF val <= 0 THEN << >> ELSE <<LexRange(0, val - 1)>>
      [] op = "<=" -> <<LexRange(0, val)>>
      [] op = ">"  -> IF val >= MaxLookaheadRune THEN << >> ELSE <<LexRange(val + 1, MaxLookaheadRune)>>
      [] op = ">=" -> <<LexRange(val, MaxLookaheadRune)>>
      [] op = "==" -> <<LexRange(val, val)>>
      [] op = "!=" -> ComplementRanges(<<LexRange(val, val)>>)
SetComparison(tokens) ==
    {Parsed(SetRanges(tokens[2], Literals[tokens[3]]), SubSeq(tokens, 4, Len(tokens))) :
        t \in {x \in {tokens} : Len(x) > 2 /\ x[2] \in Comparisons /\ IsLiteral(x[3])}}
SetReversed(tokens) ==
    {Parsed(SetRanges(InvertComparison(tokens[2]), Literals[tokens[1]]), SubSeq(tokens, 4, Len(tokens))) :
        t \in {x \in {tokens} : Len(x) > 2 /\ x[2] \in Comparisons /\ x[3] = "c"}}

ChosenRightAlways(inner, left, right) == UnionRanges(IntersectRanges(left, inner), right)   \* faulty variant
Chosen(inner, left, right) ==
    UnionRanges(IntersectRanges(left, inner), IntersectRanges(right, ComplementRanges(inner)))
SetTernary(inner) ==
    UNION {UNION {{Parsed(Chosen(inner.value, left.value, right.value), end) : end \in PastToken(right.rest, ")")} :
                     right \in UNION {SetOr(rest) : rest \in PastToken(left.rest, ":")}} :
              left \in SetOr(Tail(inner.rest))}

SetPrimary(tokens) ==
    CASE Peek(tokens) = "(" ->
           UNION {IF Peek(inner.rest) = "?" THEN SetTernary(inner)
                  ELSE {Parsed(inner.value, end) : end \in PastToken(inner.rest, ")")} : inner \in SetOr(Tail(tokens))}
      [] Peek(tokens) = "c"     -> SetComparison(tokens)
      [] Peek(tokens) = "true"  -> {Parsed(UniverseRanges, Tail(tokens))}
      [] Peek(tokens) = "false" -> {Parsed(<< >>, Tail(tokens))}
      [] IsLiteral(Peek(tokens)) -> SetReversed(tokens)
      [] OTHER -> {}

\* The condition of a transition: the runes it holds of, and whether it holds
\* at the end of the text.  An operand is a condition or a value.
Condition(nonEOF, eof) == [nonEOF |-> nonEOF, eof |-> eof]
IsCondition(c)  == [kind |-> "condition", condition |-> c]
IsValue(value)  == [kind |-> "value", isLook |-> FALSE, value |-> value]
TheLookahead    == [kind |-> "value", isLook |-> TRUE]

Arguments(tokens, count) ==
    IF Len(tokens) < count + 2 \/ tokens[1] # "(" \/ tokens[count + 2] # ")" THEN {}
    ELSE {Parsed(SubSeq(tokens, 2, count + 1), SubSeq(tokens, count + 3, Len(tokens)))}
\* A set that is unknown or empty is refused.
SetContains(tokens, sets) ==
    {Parsed(IsCondition(Condition(sets[call.value[1]], FALSE)), call.rest) :
        call \in {a \in Arguments(tokens, 5) :
                     /\ a.value[2] = "," /\ a.value[4] = "," /\ IsLiteral(a.value[3]) /\ a.value[5] = "lookahead"
                     /\ a.value[1] \in DOMAIN sets /\ sets[a.value[1]] # << >>}}
SetFunction(tokens, sets) ==
    {Parsed(IsCondition(Condition(sets[Head(tokens)], FALSE)), call.rest) :
        call \in {a \in Arguments(Tail(tokens), 1) : Head(tokens) \in DOMAIN sets /\ a.value[1] = "lookahead"}}

Atom(tokens, sets) ==
    CASE Peek(tokens) = "eof"          -> {Parsed(IsCondition(Condition(<< >>, TRUE)), Tail(tokens))}
      [] Peek(tokens) = "lookahead"    -> {Parsed(TheLookahead, Tail(tokens))}
      [] Peek(tokens) = "set_contains" -> SetContains(Tail(tokens), sets)
      [] IsLiteral(Peek(tokens))       -> {Parsed(IsValue(Literals[Head(tokens)]), Tail(tokens))}
      [] OTHER -> IF tokens = << >> THEN {} ELSE SetFunction(tokens, sets)

\* Nothing that compares says anything of the end of the text.
CompareOperands(left, op, right) ==
    IF left.kind # "value" \/ right.kind # "value" THEN {}
    ELSE IF left.isLook = right.isLook THEN {}
    ELSE {Condition(IF left.isLook THEN RangesForComparison(op, right.value)
                    ELSE RangesForComparison(InvertComparison(op), left.value), FALSE)}

EitherOf(a, b) == Condition(UnionRanges(a.nonEOF, b.nonEOF), a.eof \/ b.eof)
BothOf(a, b)   == Condition(IntersectRanges(a.nonEOF, b.nonEOF), a.eof /\ b.eof)
NotOf(a)       == Condition(ComplementRanges(a.nonEOF), ~ a.eof)

RECURSIVE ParseOr(_, _), MoreOr(_, _), ParseAnd(_, _), MoreAnd(_, _), ParseUnary(_, _), ParsePrimary(_, _)
ParseOr(tokens, sets)  == UNION {MoreOr(left, sets) : left \in ParseAnd(tokens, sets)}
MoreOr(left, sets) ==
    IF Peek(left.rest) # "||" THEN {left}
    ELSE UNION {MoreOr(Parsed(EitherOf(left.value, right.value), right.rest), sets) :
                   right \in ParseAnd(Tail(left.rest), sets)}
ParseAnd(tokens, sets) == UNION {MoreAnd(left, sets) : left \in ParseUnary(tokens, sets)}
MoreAnd(left, sets) ==
    IF Peek(left.rest) # "&&" THEN {left}
    ELSE UNION {MoreAnd(Parsed(BothOf(left.value, right.value), right.rest), sets) :
                   right \in ParseUnary(Tail(left.rest), sets)}
ParseUnary(tokens, sets) ==
    IF Peek(tokens) # "!" THEN ParsePrimary(tokens, sets)
    ELSE {Parsed(NotOf(sub.value), sub.rest) : sub \in ParseUnary(Tail(tokens), sets)}
ParsePrimary(tokens, sets) ==
    LET Compared(left) ==
          UNION {{Parsed(c, right.rest) : c \in CompareOperands(left.value, Peek(left.rest), right.value)} :
                    right \in Atom(Tail(left.rest), sets)}
    IN  IF Peek(tokens) = "("
        THEN UNION {{Parsed(v.value, end) : end \in PastToken(v.rest, ")")} : v \in ParseOr(Tail(tokens), sets)}
        ELSE UNION {IF Peek(left.rest) \in Comparisons THEN Compared(left)
                    ELSE {Parsed(left.value.condition, left.rest) : c \in {"condition"} \cap {left.value.kind}} :
                       left \in Atom(tokens, sets)}

ParseConditionExpression(tokens, sets) ==
    {c.value : c \in {p \in ParseOr(tokens, sets) : p.rest = << >>}}
-----------------------------------------------------------------------------
(* The states of the lexer.                                                *)

\* Bounds of a range may come in any order; a range that cannot be read is
\* left out.
CharacterSet(entries) ==
    LET Entry(e) == LET a == Literals[e[1]]  b == Literals[e[2]] IN LexRange(Min({a, b}), Max({a, b}))
        known == SelectSeq(entries, LAMBDA e : IsLiteral(e[1]) /\ IsLiteral(e[2]))
    IN  NormalizeRanges([i \in DOMAIN known |-> Entry(known[i])])

\* A function that cannot be read is left out; one takes the place of a set
\* with its name.
FunctionRanges(read) ==
    [name \in {n \in DOMAIN read : read[n] # {}} |-> NormalizeRanges((CHOOSE e \in read[name] : TRUE).value)]
ExtractCharacterSetFunctions(functions) ==
    FunctionRanges([name \in DOMAIN functions |-> SetOr(functions[name])])
SetsBeside(functions, arrays) ==
    [name \in {n \in DOMAIN arrays : arrays[n] # << >>} \cup DOMAIN functions |->
        IF name \in DOMAIN functions THEN functions[name] ELSE CharacterSet(arrays[name])]
ExtractCharacterSets(source) == SetsBeside(ExtractCharacterSetFunctions(source.functions), source.sets)

NoLexState == [accept |-> NoSymbol, eof |-> -1, transitions |-> << >>]
Transition(r, next, skip) == [lo |-> r.lo, hi |-> r.hi, next |-> next, skip |-> skip]

AddTransition(st, cond, next, skip) ==
    [st EXCEPT !.eof = IF cond.eof /\ @ < 0 THEN next ELSE @,
               !.transitions = @ \o [i \in DOMAIN cond.nonEOF |-> Transition(cond.nonEOF[i], next, skip)]]

\* ADVANCE_MAP: pairs of a literal and a state, all of them or none.
ParseAdvanceMapArgs(pairs) ==
    IF \E i \in DOMAIN pairs : ~ IsLiteral(pairs[i][1]) THEN {}
    ELSE {[i \in DOMAIN pairs |-> LET c == Literals[pairs[i][1]] IN Transition(LexRange(c, c), pairs[i][2], FALSE)]}

Moves == {"ADVANCE", "SKIP"}
ConditionalTransition(st, statement, sets) ==
    {AddTransition(st, cond, statement.arg, statement.call = "SKIP") :
        cond \in {c \in ParseConditionExpression(statement.condition, sets) : statement.call \in Moves}}

\* The statements up to END_STATE; a macro of another kind is passed over, a
\* condition that cannot be read or guards another macro is refused.
RECURSIVE ParseLexCaseBlock(_, _, _)
ParseLexCaseBlock(st, block, sets) ==
    LET statement == Head(block)
        With(next) == ParseLexCaseBlock(next, Tail(block), sets)
    IN  IF block = << >> THEN {st}
        ELSE IF statement.condition # << >>
        THEN UNION {With(next) : next \in ConditionalTransition(st, statement, sets)}
        ELSE CASE statement.call = "END_STATE"    -> {st}
               [] statement.call = "ACCEPT_TOKEN" -> With([st EXCEPT !.accept = statement.arg])
               [] statement.call \in Moves ->
                    With(AddTransition(st, Condition(UniverseRanges, FALSE), statement.arg, statement.call = "SKIP"))
               [] statement.call = "ADVANCE_MAP" ->
                    UNION {With([st EXCEPT !.transitions = @ \o map]) :
                              map \in IF ParseAdvanceMapArgs(statement.arg) = {} THEN {<< >>}
                                      ELSE ParseAdvanceMapArgs(statement.arg)}
               [] OTHER -> With(st)

\* All of the states, or none; one without a case goes nowhere.
BlockStates(blocks) ==
    IF DOMAIN blocks = {} \/ \E id \in DOMAIN blocks : blocks[id] = {} THEN {}
    ELSE {[id \in 0 .. Max(DOMAIN blocks) |->
             IF id \in DOMAIN blocks THEN CHOOSE st \in blocks[id] : TRUE ELSE NoLexState]}
ExtractLexFunctionStates(cases, sets) ==
    BlockStates([id \in DOMAIN cases |-> ParseLexCaseBlock(NoLexState, cases[id], sets)])

\* The lexer must be read; a keyword lexer that cannot be read is left out.
LexDFA(source, sets) ==
    {[states |-> states, keywords |-> UNION {ExtractLexFunctionStates(k, sets) : k \in source.keywords}] :
        states \in ExtractLexFunctionStates(source.cases, sets)}
ExtractLexDFA(source) == LexDFA(source, ExtractCharacterSets(source))
-----------------------------------------------------------------------------
(* Compaction.  A pool keeps the transitions seen before, by their hash.   *)

MergedAcrossSkips(merged, tr) ==   \* faulty variant
    LET prev == Last(merged)
    IN  IF merged # << >> /\ prev.next = tr.next /\ prev.hi + 1 = tr.lo
        THEN [merged EXCEPT ![Len(merged)].hi = tr.hi] ELSE Append(merged, tr)
MergedWith(merged, tr) ==
    LET prev == Last(merged)
    IN  IF merged # << >> /\ prev.next = tr.next /\ prev.skip = tr.skip /\ prev.hi + 1 = tr.lo
        THEN [merged EXCEPT ![Len(merged)].hi = tr.hi] ELSE Append(merged, tr)
CompactTransitions(ts) == FoldLeft(MergedWith, << >>, ts)

\* A hash with collisions.
HashLexTransitions(ts) == Len(ts) % 2
Bucket(pool, hash) == IF hash \in DOMAIN pool THEN pool[hash] ELSE << >>
Pooled(pool, ts) ==
    LET hash == HashLexTransitions(ts)
    IN  [h \in DOMAIN pool \cup {hash} |-> IF h = hash THEN Append(Bucket(pool, h), ts) ELSE pool[h]]
InBucketByLength(pool, ts) ==   \* faulty variant
    SelectSeq(Bucket(pool, HashLexTransitions(ts)), LAMBDA existing : Len(existing) = Len(ts))
InBucket(pool, ts) == SelectSeq(Bucket(pool, HashLexTransitions(ts)), LAMBDA existing : existing = ts)

\* Of a run of the generator: every table is kept.
InternTransitions(pool, ts) ==
    IF ts = << >> THEN [pool |-> pool, ts |-> ts]
    ELSE IF InBucket(pool, ts) # << >> THEN [pool |-> pool, ts |-> Head(InBucket(pool, ts))]
    ELSE [pool |-> Pooled(pool, ts), ts |-> ts]

\* Of the loader: up to a number of hashes.
CompactAndInternTransitions(pool, given) ==
    LET ts == CompactTransitions(given)
    IN  IF ts = << >> \/ TransitionInternLimit = 0 THEN [pool |-> pool, ts |-> ts]
        ELSE IF InBucket(pool, ts) # << >> THEN [pool |-> pool, ts |-> Head(InBucket(pool, ts))]
        ELSE IF Cardinality(DOMAIN pool) >= TransitionInternLimit THEN [pool |-> pool, ts |-> ts]
        ELSE [pool |-> Pooled(pool, ts), ts |-> ts]

\* The states one after the other; both compactions begin with an empty pool.
CompactLanguage(states) ==
    LET Table[n \in -1 .. Max(DOMAIN states)] ==
          IF n < 0 THEN [pool |-> << >>, done |-> << >>]
          ELSE LET i == InternTransitions(Table[n - 1].pool, CompactTransitions(states[n].transitions))
               IN  [pool |-> i.pool, done |-> Append(Table[n - 1].done, i.ts)]
    IN  [n \in DOMAIN states |-> [states[n] EXCEPT !.transitions = Table[Max(DOMAIN states)].done[n + 1]]]

CompactDecodedLanguage(states) ==
    LET Table[n \in -1 .. Max(DOMAIN states)] ==
          IF n < 0 THEN [pool |-> << >>, done |-> << >>]
          ELSE LET i == CompactAndInternTransitions(Table[n - 1].pool, states[n].transitions)
               IN  [pool |-> i.pool, done |-> Append(Table[n - 1].done, i.ts)]
    IN  [n \in DOMAIN states |-> [states[n] EXCEPT !.transitions = Table[Max(DOMAIN states)].done[n + 1]]]

\* The tables as Lexer reads them: nothing accepts a gap, and there is no
\* default.
RunesIn(tr) == {SpelledRunes[c + 1] : c \in tr.lo .. tr.hi}
ConvertLexStates(states) ==
    [n \in DOMAIN states |->
        [accept |-> states[n].accept, skip |-> FALSE, default |-> -1, eof |-> states[n].eof,
         transitions |-> [i \in DOMAIN states[n].transitions |->
             LET tr == states[n].transitions[i]
             IN  [on |-> RunesIn(tr), next |-> tr.next, skip |-> tr.skip]]]]

LoadedStates(states) == ConvertLexStates(CompactDecodedLanguage(CompactLanguage(states)))
=============================================================================
