-------------------------------- MODULE MCTokens --------------------------------
(***************************************************************************)
(* Languages for TokenSource, and what their tokens are said without       *)
(* tables and programs.                                                    *)
(*   Plain     identifiers with a keyword, numbers with a fraction, "=",   *)
(*             "==", strings, comments; in the state "path" a second mode  *)
(*             in which a number has no fraction and "." is a token        *)
(*   Lines     ends of lines and element text, made up by name             *)
(*   Brackets  brackets read by a scanner that keeps whether one is open   *)
(*   PythonBlocks, PythonStrings  the scanner of the Python grammar        *)
(***************************************************************************)
EXTENDS TokenSource, PortExamples, LexTables, SavedStates

Runes  == {"a", "1", ".", "=", "Q", "#", " ", "\n", "\r", "<", "[", "]", "E", "?"}
Blank  == {" ", "\n", "\r"}

S(accept, transitions, default) ==
    [accept |-> accept, skip |-> FALSE, transitions |-> transitions,
     default |-> default, eof |-> -1]
To(on, next) == [on |-> on, next |-> next, skip |-> FALSE]
Gap(on)      == [on |-> on, next |-> 0, skip |-> TRUE]

PlainStates == [i \in 0 .. 15 |->
    CASE i = 0  -> S(NoSymbol, <<Gap(Blank), To({"a"}, 1), To({"1"}, 2), To({"="}, 5),
                                 To({"#"}, 7), To({"Q"}, 8)>>, -1)
      [] i = 1  -> S("ident", <<To({"a"}, 1)>>, -1)
      [] i = 2  -> S("number", <<To({"1"}, 2), To({"."}, 3)>>, -1)
      [] i = 3  -> S(NoSymbol, <<To({"1"}, 4)>>, -1)
      [] i = 4  -> S("number", <<To({"1"}, 4)>>, -1)
      [] i = 5  -> S("=", <<To({"="}, 6)>>, -1)
      [] i = 6  -> S("==", << >>, -1)
      [] i = 7  -> [S(NoSymbol, <<To(Runes \ {"\n"}, 7)>>, -1) EXCEPT !.skip = TRUE]
      [] i = 8  -> S(NoSymbol, <<To({"Q"}, 9)>>, 8)
      [] i = 9  -> S("string", << >>, -1)
      [] i = 10 -> S(NoSymbol, <<To(Blank, 11), To({"1"}, 12), To({"."}, 13),
                                 To({"a"}, 14)>>, -1)
      [] i = 11 -> [S(NoSymbol, <<To(Blank, 11)>>, -1) EXCEPT !.skip = TRUE]
      [] i = 12 -> S("number", <<To({"1"}, 12)>>, -1)
      [] i = 13 -> S(".", << >>, -1)
      [] i = 14 -> [S(NoSymbol, <<To({"a"}, 14)>>, -1) EXCEPT !.eof = 15]
      [] i = 15 -> S("last", << >>, -1)]

KeywordStates == [i \in 0 .. 2 |-> IF i < 2 THEN S(NoSymbol, <<To({"a"}, i + 1)>>, -1)
                                            ELSE S("aa", << >>, -1)]

NoTable == [i \in {} |-> i]
Plain == [name |-> "Plain", states |-> PlainStates, keywords |-> KeywordStates,
          capture |-> "ident", modes |-> [s \in {"expr", "path"} |-> IF s = "expr" THEN 0 ELSE 10],
          expected |-> [s \in {"expr", "path"} |-> {}], externals |-> << >>, scanner |-> {}]

LineStates == [i \in 0 .. 1 |->
    IF i = 0 THEN S(NoSymbol, <<Gap(Blank), To({"a", "<"}, 1)>>, -1) ELSE S("char", << >>, -1)]

External(name) == [symbol |-> name, name |-> name]
Lines == [name |-> "Lines", states |-> LineStates, keywords |-> NoTable, capture |-> NoSymbol,
          modes |-> [s \in {} |-> 0],
          expected |-> [s \in {"none", "statement", "line", "lastLine", "element", "any"} |->
             CASE s = "none"      -> {}
               [] s = "statement" -> {"automatic_semicolon", "comment"}
               [] s = "line"      -> {"line_break"}
               [] s = "lastLine"  -> {"line_ending_or_eof"}
               [] s = "element"   -> {"jsx_text"}
               [] s = "any"       -> {"line_break", "jsx_text"}],
          externals |-> <<External("comment"), External("automatic_semicolon"),
                          External("line_break"), External("line_ending_or_eof"),
                          External("jsx_text")>>,
          scanner |-> {}]

I(op, arg, alt) == [op |-> op, arg |-> arg, alt |-> alt]
\* Blanks are skipped in steps of three; nothing to read is an endless loop.
BracketCode ==
    << I("ifRune", {" "}, 3), I("advance", TRUE, 0), I("jump", 0, 0),
       I("requireValid", "open", 9), I("ifRune", {"["}, 9), I("advance", FALSE, 0),
       I("markEnd", 0, 0), I("setState", 1, 0), I("emit", "open", 0),
       I("requireValid", "close", 16), I("requireState", 1, 16), I("ifRune", {"]"}, 16),
       I("advance", FALSE, 0), I("markEnd", 0, 0), I("setState", 0, 0), I("emit", "close", 0),
       I("ifRune", {EndOfText}, 18), I("fail", 0, 0), I("jump", 16, 0) >>

BracketStates == [i \in 0 .. 1 |->
    IF i = 0 THEN S(NoSymbol, <<Gap(Blank), To({"[", "]", "a", "E"}, 1)>>, -1)
             ELSE S("char", << >>, -1)]
Brackets == [Lines EXCEPT
    !.name = "Brackets", !.states = BracketStates,
    !.externals = <<External("open"), External("close")>>,
    !.expected = [s \in {"outer", "inner", "both", "none"} |->
        CASE s = "outer" -> {"open"} [] s = "inner" -> {"close"}
          [] s = "both"  -> {"open", "close"} [] s = "none" -> {}],
    !.scanner = {[kind |-> "vm", code |-> BracketCode, maxSteps |-> 12]}]

\* Blocks and strings of Python, whatever the parser asks for: statements in
\* and between blocks; strings in brackets and in each other; a parser that is
\* recovering.
PythonStates == [i \in 0 .. 1 |->
    IF i = 0 THEN S(NoSymbol, <<Gap(Blank \cup {"\t"}), To(Runes \ Blank, 1)>>, -1)
             ELSE S("char", << >>, -1)]
PythonBlocks == [Lines EXCEPT
    !.name = "Blocks", !.states = PythonStates,
    !.externals = <<External("newline"), External("indent"), External("dedent"),
                    External("string_start"), External("string_content"),
                    External("escape_interpolation"), External("string_end"),
                    External("close_paren")>>,
    !.expected = [s \in {"statement", "header", "block", "recovering"} |->
        CASE s = "statement"  -> {"newline"}
          [] s = "header"     -> {"indent", "newline"}
          [] s = "block"      -> {"dedent", "string_start"}
          [] s = "recovering" -> {"indent", "dedent", "newline", "string_start",
                                  "string_content", "string_end"}],
    !.scanner = {[kind |-> "port", name |-> "python"]}]
PythonStrings == [PythonBlocks EXCEPT
    !.name = "Strings",
    !.expected = [s \in {"bracket", "string", "block"} |->
        CASE s = "bracket" -> {"close_paren", "string_start"}
          [] s = "block"   -> {"dedent", "string_start"}
          [] s = "string"  -> {"string_content", "escape_interpolation", "string_end"}]]


\* The language of a ported scanner: any rune that it does not read is a token.
RuneStates == [i \in 0 .. 1 |-> S(IF i = 0 THEN NoSymbol ELSE "char", << >>, IF i = 0 THEN 1 ELSE -1)]
LanguageOf(example) == [Lines EXCEPT
    !.name = example.port.name, !.states = RuneStates,
    !.externals = [i \in DOMAIN example.port.externals |-> External(example.port.externals[i])],
    !.expected = example.expected,
    !.scanner = {[kind |-> "port", name |-> example.port.name]}]

-----------------------------------------------------------------------------
(* C lexers for LexTables: expressions with the runes they hold of, -1     *)
(* being the end of the text, and the lexers that are written with them.   *)

Spelled == <<"a", "b", "1", "_">>
Values  == [w \in {"0", "1", "'1'", "3", "0x9"} |->
               CASE w = "0" -> 0 [] w = "1" -> 1 [] w = "'1'" -> 2 [] w = "3" -> 3 [] w = "0x9" -> 9]
Codes   == 0 .. MaxLookaheadRune
Compares(op, c, n) ==
    CASE op = "==" -> c = n [] op = "!=" -> c # n [] op = "<" -> c < n
      [] op = "<=" -> c <= n [] op = ">" -> c > n [] op = ">=" -> c >= n

\* A phrase: its tokens, what it holds of, and how tightly it binds.
Phrase(written, holds, binds) == [tokens |-> written, holds |-> holds, binds |-> binds]
InParens(p)     == <<"(">> \o p.tokens \o <<")">>
Bound(p, least) == IF p.binds < least THEN InParens(p) ELSE p.tokens
Either(p, q)  == Phrase(Bound(p, 1) \o <<"||">> \o Bound(q, 1), p.holds \cup q.holds, 1)
Both(p, q) == Phrase(Bound(p, 2) \o <<"&&">> \o Bound(q, 2), p.holds \cap q.holds, 2)
None(p)    == Phrase(<<"!">> \o Bound(p, 3), (Codes \cup {-1}) \ p.holds, 3)

Comparing(name, op, w) == Phrase(<<name, op, w>>, {c \in Codes : Compares(op, c, Values[w])}, 3)
ComparedBy(name, op, w) == Phrase(<<w, op, name>>, {c \in Codes : Compares(op, Values[w], c)}, 3)
EveryComparison(name) ==   \* With runes: the generator compares with no others.
    UNION {{Comparing(name, op, w), ComparedBy(name, op, w)} : op \in Comparisons, w \in DOMAIN Values \ {"0x9"}}

AtTheEnd == Phrase(<<"eof">>, {-1}, 3)
InSet    == Phrase(<<"set_contains", "(", "letters", ",", "3", ",", "lookahead", ")">>, {0, 1, 3}, 3)
Arrays   == [letters |-> << <<"3", "3">>, <<"3", "0x9">>, <<"'1'", "?">>, <<"1", "0">>, <<"0", "0">> >>]
Few      == {AtTheEnd, InSet, Comparing("lookahead", "!=", "0"), ComparedBy("lookahead", "<=", "'1'"),
             Comparing("lookahead", "==", "1")}
Pairs    == {Either(p, q) : p \in Few, q \in Few} \cup {Both(p, q) : p \in Few, q \in Few}
Conditions == EveryComparison("lookahead") \cup Few \cup Pairs \cup {None(p) : p \in Few \cup Pairs}
              \cup {Both(p, q) : p \in {None(x) : x \in Few}, q \in Pairs}
              \cup {Either(p, q) : p \in Pairs, q \in Few}

\* What a function returns, and the condition that calls it.
Ternary(p, q, r) == Phrase(<<"(">> \o p.tokens \o <<"?">> \o q.tokens \o <<":">> \o r.tokens \o <<")">>,
                           (p.holds \cap q.holds) \cup (r.holds \ p.holds), 3)
Leaves    == {Phrase(<<"true">>, Codes, 3), Phrase(<<"false">>, {}, 3), Comparing("c", "<", "'1'"),
              Comparing("c", "!=", "1"), ComparedBy("c", "<", "1"),
              Both(Comparing("c", ">=", "1"), Comparing("c", "<=", "'1'"))}
Ternaries == {Ternary(Comparing("c", "<", "'1'"), q, r) : q \in Leaves, r \in Leaves}
Returned  == EveryComparison("c") \cup Ternaries
             \cup {Ternary(Comparing("c", "<", "3"), q, Comparing("c", "==", "3")) : q \in Ternaries}
             \cup {Either(p, q) : p \in Leaves, q \in Leaves}
             \cup {Either(Both(p, q), p) : p \in {Either(x, y) : x \in Leaves, y \in Leaves}, q \in Leaves}
Call(p)   == Phrase(<<"set_1", "(", "lookahead", ")">>, p.holds, 3)
(* Lexers: the statements of their cases, with phrases for conditions.     *)

Always == Phrase(<< >>, Codes, 3)
If(p, call, arg) == [phrase |-> p, call |-> call, arg |-> arg]
Do(call, arg)    == If(Always, call, arg)
CLexer(cases, keywords, returned) == [cases |-> cases, keywords |-> keywords, returned |-> returned]

\* One that goes on from its first rune, and from its second, if a phrase
\* holds of what comes next.
GoingOn(p, returned) ==
    CLexer([id \in 0 .. 2 |->
               CASE id = 0 -> << If(p, "ADVANCE", 1), Do("END_STATE", 0) >>
                 [] id = 1 -> << Do("ACCEPT_TOKEN", "one"), If(p, "ADVANCE", 2) >>
                 [] id = 2 -> << Do("ACCEPT_TOKEN", "two") >>], {}, returned)

\* Words with a keyword, and numbers with gaps in front of them; a state
\* without a case.
Is(w) == Comparing("lookahead", "==", w)
WordsAndNumbers ==
    CLexer([id \in {0, 1, 2, 4} |->
               CASE id = 0 -> << Do("START_LEXER", 0), Do("ADVANCE_MAP", << <<"0", 1>>, <<"1", 1>>, <<"'1'", 2>> >>),
                                 If(Is("3"), "SKIP", 2), Do("END_STATE", 0), Do("ADVANCE", 1) >>
                 [] id = 1 -> << Do("ACCEPT_TOKEN", "word"), If(Is("0"), "ADVANCE", 1), If(Is("1"), "ADVANCE", 1),
                                 If(Is("3"), "ADVANCE", 4) >>
                 [] id = 2 -> << Do("ACCEPT_TOKEN", "number"), If(Is("'1'"), "ADVANCE", 2), If(Is("3"), "SKIP", 2) >>
                 [] id = 4 -> << If(Is("'1'"), "ADVANCE", 3), Do("ADVANCE", 4) >>],
           {[id \in 0 .. 1 |-> IF id = 0 THEN << If(Is("0"), "ADVANCE", 1) >> ELSE << Do("ACCEPT_TOKEN", "keyword") >>]},
           {})

CLexers == {GoingOn(p, {}) : p \in Conditions} \cup {GoingOn(Call(p), {p}) : p \in Returned} \cup {WordsAndNumbers}

\* As cmd/ts2go reads it.
WrittenCases(cases) ==
    [id \in DOMAIN cases |->
        [i \in DOMAIN cases[id] |->
            [condition |-> cases[id][i].phrase.tokens, call |-> cases[id][i].call, arg |-> cases[id][i].arg]]]
SourceOf(lexer) ==
    [sets |-> Arrays, functions |-> [name \in {n \in {"set_1"} : lexer.returned # {}} |->
                                        (CHOOSE p \in lexer.returned : TRUE).tokens],
     cases |-> WrittenCases(lexer.cases), keywords |-> {WrittenCases(k) : k \in lexer.keywords}]

\* As C means it: the first statement that holds decides.
Reached(block) ==
    LET ends == {i \in DOMAIN block : block[i].call = "END_STATE"}
    IN  IF ends = {} THEN DOMAIN block ELSE {i \in DOMAIN block : \A e \in ends : i < e}
MovesOn(statement, c) ==
    CASE statement.call \in Moves -> {[next |-> statement.arg, skip |-> statement.call = "SKIP"] :
                                         x \in {c} \cap statement.phrase.holds}
      [] statement.call = "ADVANCE_MAP" -> {[next |-> statement.arg[i][2], skip |-> FALSE] :
                                               i \in {j \in DOMAIN statement.arg : Values[statement.arg[j][1]] = c}}
      [] OTHER -> {}
Meant(block, c) ==
    LET moving == {i \in Reached(block) : MovesOn(block[i], c) # {}}
    IN  IF moving = {} THEN {}
        ELSE MovesOn(block[CHOOSE i \in moving : \A j \in moving : i <= j], c)
MeantStates(cases) ==
    [id \in DOMAIN cases |->
        LET block   == cases[id]
            accepts == {block[i].arg : i \in {j \in Reached(block) : block[j].call = "ACCEPT_TOKEN"}}
            runes   == SelectSeq(<<0, 1, 2, 3>>, LAMBDA c : Meant(block, c) # {})
        IN  [accept |-> IF accepts = {} THEN NoSymbol ELSE CHOOSE a \in accepts : TRUE,
             skip |-> FALSE, default |-> -1,
             eof |-> IF Meant(block, -1) = {} THEN -1 ELSE (CHOOSE m \in Meant(block, -1) : TRUE).next,
             transitions |-> [i \in DOMAIN runes |->
                LET m == CHOOSE x \in Meant(block, runes[i]) : TRUE
                IN  [on |-> {Spelled[runes[i] + 1]}, next |-> m.next, skip |-> m.skip]]]]
-----------------------------------------------------------------------------
\* The language that cmd/ts2go makes of a C lexer.
WithTables(lexer, dfa) ==
    [name |-> "Extracted", lexer |-> lexer, states |-> LoadedStates(dfa.states),
     keywords |-> IF dfa.keywords = {} THEN NoTable ELSE LoadedStates(CHOOSE k \in dfa.keywords : TRUE),
     capture |-> "word", modes |-> [s \in {} |-> 0], expected |-> [s \in {"any"} |-> {}],
     externals |-> << >>, scanner |-> {}]
ExtractedFrom(lexer) == WithTables(lexer, CHOOSE d \in ExtractLexDFA(SourceOf(lexer)) : TRUE)

AllLanguages ==
    LET byHand == {Plain, Lines, Brackets, PythonBlocks, PythonStrings}
    IN  byHand \cup {LanguageOf(e) : e \in Examples} \cup {ExtractedFrom(lexer) : lexer \in CLexers}

\* What the states of a scanner are: a number for a program that the
\* constructor has checked, the stacks of Python's scanner.
IsScannerState(scanner, s) ==
    CASE scanner.kind = "vm"     -> IsProgram(scanner) /\ s \in Nat
      [] scanner.name = "python" -> s \in PythonState
      [] OTHER                   -> TRUE
OnlyBlocks   == {PythonBlocks}
KeepingState == {e.port.name : e \in Stateful}
CallsIn(l) == CASE l.name = "Extracted" -> IF l.lexer = WordsAndNumbers THEN 3 ELSE 1
                [] l.name = "Strings" -> 5 [] l.name = "Blocks" -> 4
                [] l.name \in {"Plain", "Lines", "Brackets", "teal", "nickel", "hcl", "csharp"} -> 3
                [] l.name \in KeepingState -> IF Cardinality(DOMAIN l.expected) > 6 THEN 3 ELSE 4
                [] OTHER -> 2

ReuseIn(l) == IF l.name \in {"Plain", "Lines", "Brackets", "Blocks", "Strings"} THEN 100
              ELSE IF l.name \in {"teal", "nickel"} THEN 9
              ELSE IF l.name \in {"hcl", "csharp"} THEN 3 ELSE 0

Strings(bytes, n) == UNION {[1 .. k -> bytes] : k \in 0 .. n}
TextsOf(l) ==
    CASE l.name = "Extracted" -> {[i \in DOMAIN w |-> Spelled[w[i] + 1]] :
                                    w \in Strings(Codes, IF l.lexer = WordsAndNumbers THEN 4 ELSE 2)}
      [] l.name = "Plain" ->
           Strings({"1", ".", "Q"}, 3) \cup Strings({"a", "=", "#", "\n"}, 3)
           \cup Strings({"E1", "E2", "Q"}, 3)
           \cup { <<"a", "a", " ", "a">>, <<"1", ".", "1", ".">>, <<"1", "\n", "#", "a", "\n", "=">>,
                  <<"Q", "E1", "E2", "Q", "\r", "1">>, <<"a", "a", "a", "Q", "\n", "Q">> }
      [] l.name = "Lines" ->
           Strings({"\r", "\n", " ", "a"}, 3)
           \cup { <<"a", "\n", "<", "a">>, <<"E1", "E2", "\r", "\n", "<">>, <<"a", "\r", " ", "a">> }
      [] l.name = "Brackets" ->
           Strings({"[", " ", "]"}, 3)
           \cup { <<" ", " ", "[", "]">>, <<"[", " ", "]", "[">>, <<" ", " ", " ", "[">>,
                  <<"E1", "E2", "[", "\n", "]">>, <<"[", "a", "]">> }
      [] l.name = "Blocks" ->
           Strings({"\n", " ", "a"}, 2)
           \cup { <<"\n", " ", "#", "\n", "\t", "a", "\n", " ", "a">>,
                  <<"\n", " ", "a", "\n", " ", "#", "\n", "a">>, <<"\\", "\n", " ", "a">>,
                  <<"#", "\n">>, <<"\n", " ", " ", "\n", " ">> }
      [] l.name = "Strings" ->
           Strings({"q", "Q"}, 3)
           \cup { <<"q", "q", "q", "q", "a", "q", "q", "q">>, <<"f", "q", "{", "{", "a", "q">>,
                  <<"f", "q", "Q", "{", "Q", "q">>, <<"f", "q", "{", "Q", "Q", "q">>,
                  <<"r", "q", "\\", "q", "q">>, <<"r", "q", "a", "\\", "\n", "q">>,
                  <<"b", "q", "\\", "N", "a", "q">>, <<"q", "\\", "q">>, <<"q", "a", "\n", "q">> }
      [] OTHER -> (CHOOSE e \in Examples : e.port.name = l.name).texts
-----------------------------------------------------------------------------
(* What the tokens are.                                                    *)

Bytes(from, to) == SubSeq(text, from + 1, to)
All(w, bytes)   == \A i \in DOMAIN w : w[i] \in bytes
IsNumber(w) ==
    /\ w # << >> /\ w[1] = "1" /\ w[Len(w)] = "1" /\ All(w, {"1", "."})
    /\ Cardinality({i \in DOMAIN w : w[i] = "."}) <= 1

\* The symbols a word may be in a mode; NoSymbol for a gap.
Symbols(mode, w, atEnd) ==
    IF w = << >> THEN {}
    ELSE IF mode = 0
    THEN (IF All(w, {"a"}) THEN {IF Len(w) = 2 THEN "aa" ELSE "ident"} ELSE {})
         \cup (IF IsNumber(w) THEN {"number"} ELSE {})
         \cup (IF w \in {<<"=">>, <<"=", "=">>} THEN {IF Len(w) = 1 THEN "=" ELSE "=="} ELSE {})
         \cup (IF /\ Len(w) > 1 /\ w[1] = "Q" /\ w[Len(w)] = "Q"
                  /\ \A i \in 2 .. Len(w) - 1 : w[i] # "Q" THEN {"string"} ELSE {})
         \cup (IF All(w, Blank) \/ (w[1] = "#" /\ All(w, {b : b \in Runes \cup {"E1", "E2"}} \ {"\n"}))
               THEN {NoSymbol} ELSE {})
    ELSE (IF All(w, {"1"}) THEN {"number"} ELSE {})
         \cup (IF w = <<".">> THEN {"."} ELSE {})
         \cup (IF All(w, {"a"}) /\ atEnd THEN {"last"} ELSE {})
         \cup (IF All(w, Blank) THEN {NoSymbol} ELSE {})

\* The first longest word from a position on that is a token, if there is one
\* before the end; what begins no word is passed over.
FirstLongest(mode, from) ==
    LET Find[p \in Nat] ==
          LET ends == {e \in p + 1 .. Len(text) :
                          Symbols(mode, Bytes(p, e), e = Len(text)) # {}}
              last == CHOOSE e \in ends : \A f \in ends : f <= e
              sym  == CHOOSE s \in Symbols(mode, Bytes(p, last), last = Len(text)) : TRUE
          IN CASE p >= Len(text)   -> Token(NoSymbol, PlaceOf(p), PlaceOf(p))
               [] OTHER -> IF ends = {} THEN Find[PlaceOf(p).pos + 1]
                           ELSE IF sym = NoSymbol THEN Find[last]
                           ELSE Token(sym, PlaceOf(p), PlaceOf(last))
    IN  Find[from]
-----------------------------------------------------------------------------
(* Properties.                                                             *)

\* A token of the lexer is the longest word of its mode at the first place
\* where one begins, and a keyword only when it is all of one, whatever call
\* led there (lexer.go Next and scan, parser.go promoteKeyword).
TokensAreLongest ==
    \A i \in DOMAIN tokens :
        LET k == tokens[i]
        IN  language.name = "Plain" =>
               k.token = FirstLongest(LexState(k.state), k.at.pos)

\* The tokens of a lexer that was taken from C are those the C code finds:
\* its conditions, read to ranges of runes, hold of the runes that they hold
\* of in C, and a transition merged or shared with others goes where it went
\* (lex_dfa.go, compact.go, language_compact.go).
TokensFollowTheirSource ==
    language.name = "Extracted" =>
        \A i \in DOMAIN tokens :
            LET k     == tokens[i]
                meant == NextToken(MeantStates(language.lexer.cases), text, 0, k.at)
                word  == Bytes(meant.from.pos, meant.to.pos)
                At(n) == [pos |-> n, row |-> 0, col |-> n]
                whole == \E kw \in language.lexer.keywords :
                            NextToken(MeantStates(kw), word, 0, Origin) = Token("keyword", Origin, At(Len(word)))
            IN  k.token = IF meant.symbol = "word" /\ whole THEN [meant EXCEPT !.symbol = "keyword"] ELSE meant

\* An external token comes only where the parser has an action for it, though
\* the scanner sees that in a buffer that is kept from call to call.  The
\* exceptions are a dedent, which the Python scanner also makes where neither
\* it nor a newline nor a closing bracket may come, and the tokens of ported
\* scanners that do not look at what may come again.
Unasked ==
    [janet |-> {"long_buf_lit", "long_str_lit"},
     kdl |-> {"multi_line_comment"},
     ron |-> {"block_comment"},
     dart |-> {"block_comment", "documentation_block_comment"},
     julia |-> {"end_str", "end_cmd"},
     nix |-> {"dollar_escape", "indented_dollar_escape"},
     foam |-> {"boolean"},
     hack |-> {"heredoc_start_newline"},
     hcl |-> {"template_literal_chunk"},
     csharp |-> {"interp_regular_start", "interp_verbatim_start", "interp_raw_start"},
     blade |-> {"comment", "style_start_tag_name", "script_start_tag_name"},
     vue |-> {"text_fragment", "template_start_tag_name"},
     astro |-> {"fragment_tag_delim"},
     org |-> {"list_item_end"},
     teal |-> {"long_string_char", "long_string_end"}]

ClosesUnasked(k) ==
    /\ k.token.symbol = "dedent"
    /\ language.expected[k.state] \cap ({"newline"} \cup Closers) = {}

ExternalsAreExpected ==
    \A i \in DOMAIN tokens :
        LET k == tokens[i]
        IN  k.kind # "lexed" =>
               \/ k.token.symbol \in language.expected[k.state] \/ ClosesUnasked(k)
               \/ /\ language.name \in DOMAIN Unasked
                  /\ k.token.symbol \in Unasked[language.name]

\* The bracket behind the blanks at a position, if it is one that may come
\* while a bracket is open or not, and the steps the program needs for it.
Bracket(k, open) ==
    LET Run[n \in Nat] == IF ByteAt(k.at.pos + n, {" "}) THEN Run[n + 1] ELSE n
        blanks    == Run[0]
        at        == k.at.pos + blanks
        expected  == language.expected[k.state]
        Reads(s)  == Token(s, PlaceOf(at), PlaceOf(at + 1))
    IN  {[token |-> Reads("open"), steps |-> 3 * blanks + 7] :
            s \in {x \in expected : x = "open" /\ ByteAt(at, {"["})}}
        \cup
        {[token |-> Reads("close"), steps |-> 3 * blanks + IF "open" \in expected THEN 10 ELSE 9] :
            s \in {x \in expected : x = "close" /\ open /\ ByteAt(at, {"]"})}}

\* Whether a bracket is open after so many answers.  A program that is cut
\* off has set its state if one step was all it lacked.
OpenAfter(n) ==
    LET IsOpen[i \in 0 .. n] ==
          IF i = 0 THEN FALSE
          ELSE LET near == {b \in Bracket(tokens[i], IsOpen[i - 1]) :
                               b.steps <= MaxSteps(Scanner) + 1}
               IN  IF near = {} THEN IsOpen[i - 1]
                   ELSE \E b \in near : b.token.symbol = "open"
    IN  IsOpen[n]

\* The scanner reads a bracket where there is one that may come, a closing
\* one only while one is open, and its state survives from call to call.  A
\* run that reaches the step limit reads nothing, but may leave the state of
\* the token it has not made (external_vm.go Scan, external_lexer.go).
BracketsAreRead ==
    language.name = "Brackets" =>
        /\ \A i \in DOMAIN tokens :
              {t \in {tokens[i].token} : tokens[i].kind = "scanned"}
                = {b.token : b \in {c \in Bracket(tokens[i], OpenAfter(i - 1)) :
                                       c.steps <= MaxSteps(Scanner)}}
        /\ payload \subseteq {IF OpenAfter(Len(tokens)) THEN 1 ELSE 0}

ReadsPython == \E scanner \in language.scanner : IsPython(scanner)

\* The start that an end of a string belongs to, by counting.
StartOf(n) ==
    LET Depth[i \in Nat] ==
          IF i = 0 THEN 0
          ELSE Depth[i - 1] + (IF tokens[i].token.symbol = "string_start" THEN 1 ELSE 0)
                            - (IF tokens[i].token.symbol = "string_end" THEN 1 ELSE 0)
        starts == {i \in 1 .. n - 1 : /\ tokens[i].token.symbol = "string_start"
                                      /\ Depth[i] = Depth[n] + 1}
    IN  CHOOSE i \in starts : \A j \in starts : j <= i

QuotesOf(t) == SelectSeq(Bytes(t.from.pos, t.to.pos), LAMBDA b : b \in Quotes)

\* A string ends with the quotes it began with, one or three, through
\* escapes and strings nested in it, and no piece of content is empty.  Only
\* the end of a raw string may have more in it: escapes that are all it holds.
StringsEndAsTheyBegin ==
    ReadsPython =>
        \A i \in DOMAIN tokens :
            LET t     == tokens[i].token
                start == tokens[StartOf(i)].token
                quotes == QuotesOf(start)
            IN  /\ t.symbol = "string_end" =>
                      /\ Bytes(t.to.pos - Len(quotes), t.to.pos) = quotes
                      /\ \/ t.from.pos = t.to.pos - Len(quotes)
                         \/ text[t.from.pos + 1] = "\\" /\ \E p \in start.from.pos + 1 .. start.to.pos : text[p] = "r"
                /\ t.symbol = "string_content" => t.to.pos > t.from.pos

\* A scanner's state that its bytes can hold: a margin, a number of stars or
\* of open tags and a name's length take a byte (two the tags' number and the
\* margins of Python), and of an emptied stack of lists no count is kept.
IsNarrow(s) ==
    LET Holds(numbers, limit) == \A i \in DOMAIN numbers : numbers[i] < limit
        name == Scanner.name
    IN  Scanner.kind = "port" =>
           /\ name \in Margined => Holds(s, ByteSize)
           /\ name \in Tagged => \A i \in DOMAIN s : TypeOf(s[i]) = "custom" => Len(s[i]) < ByteSize
           /\ name = "beancount" => Holds(s.stars, ByteSize) /\ Len(s.stars) <= ByteSize
           /\ name = "org" => /\ s.items # << >> /\ Len(s.items) <= ByteSize
                              /\ Holds(s.sections, ByteSize)
                              /\ \A i \in DOMAIN s.items : s.items[i].indent < ByteSize
           /\ name = "nickel" => Len(s) < ByteSize
           /\ name = "csharp" => Len(s.stack) < ByteSize
           /\ name \in Pythonic => Len(s.delimiters) < ByteSize /\ Holds(s.indents, ByteSize ^ 2)

\* What two scanners keep their states for is over before they would be saved.
Kept(s) == IF Scanner.kind = "port" /\ Scanner.name \in {"templ", "disassembly"} THEN CreateScanner(Scanner) ELSE s

\* A caller that saves a scanner's state, lets it scan on and restores it has
\* the state again that it saved, whatever the scan has left in the payload
\* (ExternalScanner in language.go, Serialize and Deserialize of each scanner).
RestoresUndo ==
    [][\A s \in payload, t \in payload' :
          IsNarrow(s) => Deserialize(Scanner, t, Serialize(Scanner, s)) = Kept(s)]_vars

\* The line tokens of the Python scanner end where it has marked their end:
\* in front of the line break.  external_lexer.go:69: "MarkEnd marks the
\* current scanner position as the token end."
MarkedEndStays ==
    ReadsPython =>
        \A i \in DOMAIN tokens :
            tokens[i].token.symbol \in {"newline", "dedent"}
                => tokens[i].token.to = tokens[i].at
=============================================================================
