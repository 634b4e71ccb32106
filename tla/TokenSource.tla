------------------------------ MODULE TokenSource ------------------------------
(***************************************************************************)
(* The parser's own token source (dfaTokenSource, parser.go): for the      *)
(* state the parser is in, an external token where one may come here, and  *)
(* a token of the lexer otherwise.                                         *)
(*                                                                         *)
(* A language is a record:                                                 *)
(*   states, keywords  the tables of the lexer and of the keyword lexer    *)
(*   capture           the token that may turn out a keyword               *)
(*   modes             from parser states to lexer states                  *)
(*   expected          from parser states to the symbols with an action    *)
(*   externals         the external symbols in order, with their names     *)
(*   scanner           the external scanner attached to it, in a set       *)
(***************************************************************************)
EXTENDS ExternalVM

CONSTANTS
    Languages,
    Texts(_),               \* The texts read in a language
    MaxCalls(_),            \* Bound on the tokens asked for in a language
    MaxReuse(_),            \* Bound on the bytes of a reused subtree
    ScannerState(_, _),     \* Of a scanner and a value: whether it is a state of its
    CreateScanner(_),       \* The state a scanner begins with
    RunScanner(_, _, _, _, _)  \* Of a scanner, a text, its lexer, its state and the
                            \* valid symbols: outcome, lexer and state of a scan

\* What the generated tables and Go's types say of a language and its texts.
IsTable(states) ==
    /\ IsFiniteSet(DOMAIN states) /\ DOMAIN states \subseteq Nat
    /\ \A i \in DOMAIN states :
          /\ states[i].accept \in STRING /\ states[i].skip \in BOOLEAN
          /\ states[i].default \in Int /\ states[i].eof \in Int
          /\ DOMAIN states[i].transitions = 1 .. Len(states[i].transitions)
          /\ \A k \in DOMAIN states[i].transitions :
                /\ states[i].transitions[k].next \in Int
                /\ states[i].transitions[k].skip \in BOOLEAN

IsLanguage(l) ==
    /\ IsTable(l.states) /\ IsTable(l.keywords) /\ l.capture \in STRING
    /\ \A s \in DOMAIN l.modes : l.modes[s] \in Int
    /\ \A s \in DOMAIN l.expected : l.expected[s] \subseteq STRING
    /\ DOMAIN l.externals = 1 .. Len(l.externals)
    /\ \A i \in DOMAIN l.externals : {l.externals[i].symbol, l.externals[i].name} \subseteq STRING
    /\ \A x, y \in l.scanner : x = y

ASSUME LanguagesAreTables ==
    \A l \in Languages :
        /\ IsLanguage(l) /\ MaxCalls(l) \in Nat /\ MaxReuse(l) \in Nat
        /\ \A t \in Texts(l) : t \in Seq(STRING)

\* The provers know of no literal that it is a string.
ASSUME LiteralsAreStrings == {NoSymbol, "running", "failed", "emitted"} \subseteq STRING

VARIABLES
    language, text,
    place,          \* Where the lexer is
    state,          \* The parser's state, as the parser last set it
    payload,        \* The external scanner's state, in a set: {} once destroyed
    externalValid,  \* The buffer of external symbols that may come
    tokens          \* History: the answers given

vars == << language, text, place, state, payload, externalValid, tokens >>

Origin    == [pos |-> 0, row |-> 0, col |-> 0]
Externals == {language.externals[i].symbol : i \in DOMAIN language.externals}
Scanner   == CHOOSE scanner \in language.scanner : TRUE

\* Whether a byte position is inside a rune.
SplitsRune(t, p) == p \in 1 .. Len(t) - 1 /\ t[p] = "E1" /\ t[p + 1] = "E2"

\* The place that a byte position has in a text, counting line ends and runes.
PlaceIn(t, p) ==
    LET lines  == {q \in 1 .. p : t[q] = "\n"}
        line   == IF lines = {} THEN 0 ELSE CHOOSE q \in lines : \A r \in lines : r <= q
        halves == {q \in line + 2 .. p : t[q - 1] = "E1" /\ t[q] = "E2"}
    IN  [pos |-> p, row |-> Cardinality(lines), col |-> p - line - Cardinality(halves)]
PlaceOf(p) == PlaceIn(text, p)
-----------------------------------------------------------------------------
(* Where no scanner is registered, tokens known by name are made up.       *)

ByteAt(p, bytes) == ~ AtEnd(text, p) /\ text[p + 1] \in bytes

\* Past spaces, tabs and form feeds.
PastBlanks(at) ==
    LET Past[a \in Place] == IF ByteAt(a.pos, {" "}) THEN Past[OneRune(text, a)] ELSE a
    IN  Past[at]

\* faulty variant: "\r" and "\n" end a line each.
PastLineEndEach(at) == [pos |-> at.pos + 1, row |-> at.row + 1, col |-> 0]

\* Past "\n", "\r" or both: here a "\r" of its own ends a line as well.
PastLineEnd(at) ==
    LET n == IF ByteAt(at.pos, {"\r"}) /\ ByteAt(at.pos + 1, {"\n"}) THEN 2 ELSE 1
    IN  [pos |-> at.pos + n, row |-> at.row + 1, col |-> 0]

SyntheticLineBreak(symbol, at) ==
    LET end == PastBlanks(at)
    IN  IF ByteAt(end.pos, {"\n", "\r"})
        THEN {Token(symbol, at, PastBlanks(PastLineEnd(end)))}
        ELSE {}

SyntheticLineEndingOrEOF(symbol, at) ==
    SyntheticLineBreak(symbol, at) \cup
    {Token(symbol, at, end) : end \in {e \in {PastBlanks(at)} : AtEnd(text, e.pos)}}

\* A semicolon goes where a line ends, and at the end.
SyntheticAutomaticSemicolon(symbol, at) ==
    SyntheticLineBreak(symbol, at) \cup
    {Token(symbol, at, end) : end \in {e \in {PastBlanks(at)} : AtEnd(text, e.pos)}}

SyntheticJSXText(symbol, at) ==
    LET Past[a \in Place] ==
          IF AtEnd(text, a.pos) \/ ByteAt(a.pos, {"<", "{", "}"}) THEN a
          ELSE Past[IF ByteAt(a.pos, {"\n", "\r"}) THEN PastLineEnd(a) ELSE OneRune(text, a)]
    IN  {Token(symbol, at, to) : to \in {Past[at]} \ {at}}

KnownNames == {"automatic_semicolon", "line_break", "line_ending_or_eof", "jsx_text"}

\* The first external symbol that may come and is known by name decides.
SyntheticExternalToken(at, valid) ==
    LET known == {i \in DOMAIN language.externals :
                     /\ language.externals[i].symbol \in valid
                     /\ language.externals[i].name \in KnownNames}
    IN  IF known = {} THEN {}
        ELSE LET e == language.externals[CHOOSE i \in known : \A j \in known : i <= j]
             IN CASE e.name = "automatic_semicolon" -> SyntheticAutomaticSemicolon(e.symbol, at)
                  [] e.name = "line_break"          -> SyntheticLineBreak(e.symbol, at)
                  [] e.name = "line_ending_or_eof"  -> SyntheticLineEndingOrEOF(e.symbol, at)
                  [] e.name = "jsx_text"            -> SyntheticJSXText(e.symbol, at)
-----------------------------------------------------------------------------
(* The two sources of a token for a parser state at a place.               *)

\* RunExternalScanner, with the state the scanner has kept.
RunExternalScanner(at, valid) ==
    LET kept == CHOOSE p \in payload : TRUE
    IN  RunScanner(Scanner, text, NewExternalLexer(at), kept, valid)

\* The external symbols with an action in the state: the buffer is cleared
\* and filled on each call.
FillValidUncleared(s) == externalValid \cup (Externals \cap language.expected[s])  \* faulty variant
FillValid(s) == Externals \cap language.expected[s]

\* A scan that does not come back is one that the call never returns from.
ScannerAnswer(m) ==
    [found   |-> IF m.outcome = "emitted" THEN ExternalToken(m.lexer) ELSE {},
     payload |-> {m.state}, returns |-> m.outcome # "stopped"]

\* The external token, in a set of at most one, and the scanner's state then.
NextExternalToken(s, at, valid) ==
    IF Externals \cap language.expected[s] = {}
    THEN [found |-> {}, payload |-> payload, returns |-> TRUE]
    ELSE IF language.scanner = {}
    THEN [found |-> SyntheticExternalToken(at, valid), payload |-> payload, returns |-> TRUE]
    ELSE ScannerAnswer(RunExternalScanner(at, valid))

LexState(s) == IF s \in DOMAIN language.modes THEN language.modes[s] ELSE 0

\* An identifier is a keyword when the keyword lexer reads all of it as one.
PromoteKeyword(token) ==
    LET word == SubSeq(text, token.from.pos + 1, token.to.pos)
        Promoted(kw) ==
           IF kw.symbol # NoSymbol /\ kw.from.pos = 0 /\ kw.to.pos = Len(word)
           THEN [token EXCEPT !.symbol = kw.symbol] ELSE token
    IN  IF /\ token.symbol # NoSymbol /\ token.symbol = language.capture
           /\ DOMAIN language.keywords # {} /\ token.to.pos > token.from.pos
        THEN Promoted(NextToken(language.keywords, word, 0, Origin))
        ELSE token
-----------------------------------------------------------------------------
Init ==
    /\ language \in Languages /\ text \in Texts(language)
    /\ place = Origin /\ state \in DOMAIN language.expected
    /\ payload = IF language.scanner = {} THEN {} ELSE {CreateScanner(Scanner)}
    /\ externalValid = {} /\ tokens = << >>

Open == Len(tokens) < MaxCalls(language) /\ (language.scanner # {} => payload # {})

\* The lexer goes on behind the token; behind a token made up here it does not.
LexerAfterStays(kind, token, at) == IF kind = "lexed" THEN token.to ELSE at   \* faulty variant
LexerAfter(kind, token, at) == IF kind = "synthetic" THEN at ELSE token.to

\* One token, read at a place where the call has moved the lexer.
Answer(at) ==
    /\ externalValid' = IF Externals = {} THEN externalValid ELSE FillValid(state)
    /\ \E external \in {a \in {NextExternalToken(state, at, externalValid')} : a.returns} :
          LET kind == IF external.found = {} THEN "lexed"
                      ELSE IF language.scanner = {} THEN "synthetic" ELSE "scanned"
          IN  \E token \in IF external.found # {} THEN external.found
                           ELSE {PromoteKeyword(NextToken(language.states, text,
                                                          LexState(state), at))} :
                 /\ payload' = external.payload
                 /\ place'   = LexerAfter(kind, token, at)
                 /\ tokens'  = Append(tokens, [kind |-> kind, state |-> state,
                                               at |-> at, token |-> token])
    /\ UNCHANGED << language, text >>

\* The parser's main loop: it sets the state of its first stack.
SetState(s) ==
    /\ Open /\ s # state
    /\ state' = s
    /\ UNCHANGED << language, text, place, payload, externalValid, tokens >>

\* Where the lexer is moved to by the parser that goes on behind a subtree it
\* has reused; the state it set is still the one in front of it.  A place
\* behind the lexer is not gone back to.
SkipToByte(offset) ==
    LET Past[a \in Place] == IF a.pos >= offset THEN a ELSE Past[OneRune(text, a)]
    IN  IF offset < place.pos THEN place ELSE Past[place]

SkipToByteWithPoint(to) ==
    LET target == [to EXCEPT !.pos = IF @ > Len(text) THEN Len(text) ELSE @]
    IN  IF target.pos >= place.pos THEN target ELSE place

Close ==
    /\ payload' = {}
    /\ UNCHANGED << language, text, place, state, externalValid, tokens >>

\* Where a subtree may end that begins with the last token: between runes, at
\* the point that the tree has with the byte.
NodeEnds ==
    LET begin == tokens[Len(tokens)].token.from.pos
    IN  IF tokens = << >> THEN {}
        ELSE {PlaceOf(p) : p \in {q \in begin .. begin + MaxReuse(language) - 1 :
                                     q <= Len(text) /\ ~ SplitsRune(text, q)}}

\* A token from where the lexer is, or from where it is skipped to.
Skipped == {SkipToByte(end.pos) : end \in NodeEnds} \cup {SkipToByteWithPoint(end) : end \in NodeEnds}
Next    == Open /\ (\E at \in {place} \cup Skipped : Answer(at)) /\ UNCHANGED state

Calls ==
    \/ \E s \in DOMAIN language.expected : SetState(s)
    \/ Next
    \/ Close

Spec == Init /\ [][Calls]_vars
-----------------------------------------------------------------------------
(* Properties.                                                             *)

IsToken(t) == t.symbol \in STRING /\ t.from \in Place /\ t.to \in Place

\* Type correctness: places are in the text, what may come is external, and
\* there is one state of the scanner until it is closed.
TypeOK ==
    /\ place \in Place /\ place.pos <= Len(text)
    /\ state \in DOMAIN language.expected /\ externalValid \subseteq Externals
    /\ Cardinality(payload) <= Cardinality(language.scanner)
    /\ \A s \in payload : ScannerState(Scanner, s)
    /\ Len(tokens) <= MaxCalls(language)
    /\ \A i \in DOMAIN tokens :
          /\ tokens[i].kind \in {"lexed", "synthetic", "scanned"}
          /\ IsToken(tokens[i].token) /\ tokens[i].at \in Place

\* A "\r" that ends a line only where tokens are made up.
LoneReturn(k) ==
    /\ k.kind = "synthetic"
    /\ \E p \in k.at.pos + 1 .. k.token.to.pos :
          text[p] = "\r" /\ (p = Len(text) \/ text[p + 1] # "\n")

\* Rows and columns of every token are those of its bytes: the lexer, the
\* scanners' lexer, the made-up tokens and the callers that move the lexer
\* count them each on their own (lexer.go, external_lexer.go, parser.go).
PositionsAgree ==
    \A i \in DOMAIN tokens :
        LET k == tokens[i]
        IN  /\ k.token.from = PlaceOf(k.token.from.pos)
            /\ k.token.to = PlaceOf(k.token.to.pos) \/ LoneReturn(k)

\* A token begins behind the one before it: tokens neither overlap nor go
\* back, also where the parser has reused a subtree in between.  Made-up
\* tokens are the exception: the lexer is left in front of them.
TokensGoOn ==
    \A i \in 2 .. Len(tokens) :
        tokens[i - 1].kind # "synthetic" =>
            tokens[i].token.from.pos >= tokens[i - 1].token.to.pos

Count(symbol) == Cardinality({i \in DOMAIN tokens : tokens[i].kind = "scanned"
                                                    /\ tokens[i].token.symbol = symbol})

IsPython(scanner) == scanner.kind = "port" /\ scanner.name = "python"

\* Whatever the parser asks for, the open blocks of the Python scanner are
\* those of the tokens it has made: one more for every indent, which is
\* deeper than the others, one less for every dedent, which stands at less
\* than the block it closes; and so for the open strings
\* (python_scanner.go Scan).
BlocksNest ==
    (\E scanner \in language.scanner : IsPython(scanner)) =>
        \A py \in payload :
            /\ Len(py.indents) - 1 = Count("indent") - Count("dedent")
            /\ \A i \in 1 .. Len(py.indents) - 1 : py.indents[i] < py.indents[i + 1]
            /\ Len(py.delimiters) = Count("string_start") - Count("string_end")
=============================================================================
