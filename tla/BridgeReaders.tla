------------------------------ MODULE BridgeReaders ------------------------------
(***************************************************************************)
(* The hand-written token sources of grammars/*_lexer.go.  First what they *)
(* share: the cursor over the source text, the runs of bytes they read,    *)
(* the pieces they split a string into, and what one call of Next leaves   *)
(* behind.  Then the sources one by one: what a call of Next that finds    *)
(* nothing pending reads from a place on, with which flags.  Those of data *)
(* and documents, JSON, TOML, YAML and HTML; those of code, C, Java, Lua,  *)
(* Authzed and Go, and the generic one that takes its words and operators  *)
(* from the grammar.                                                       *)
(*                                                                         *)
(* Symbols are the parts tokens play.  Which of a grammar's symbols of the *)
(* same name a source picks is not modelled, nor which keyword or operator *)
(* a token is: its text tells.                                             *)
(***************************************************************************)
EXTENDS SourceText, FiniteSets

CONSTANT
    Literals    \* the grammar's operators and marks: a set of sequences of bytes

VARIABLE text    \* src: a sequence of bytes

Digit     == {"0", "1", "8"}
HexDigit  == Digit \cup {"a", "d", "e"}
Letter    == {"a", "b", "d", "e", "f", "i", "l", "n", "o", "p", "r", "s", "t", "u", "x", "L"}
WordStart == Letter \cup {"_"}
WordPart  == WordStart \cup Digit \cup {"$"}
Numeric   == Digit \cup {"_"}
Space     == {" ", "\t", "\n", "\r"}
Gap       == Space \ {"\n"}

\* The parts tokens play, and the flags sources keep.
Symbols == {"end", "mark", "word", "number", "integer", "float", "literal", "operator", "key",
            "comment", "shebang", "open", "content", "escape", "close", "string", "raw string",
            "char", "document", "line end", "end marker", "scalar", "tag", "text", "<", "</",
            ">", "/>", "=", "tag name", "end tag name", "attribute name", "attribute value",
            "argument", "vararg", "IDENT", "INT", "COMMENT"}
Flags   == {"started", "ended", "tag", "closing", "name", "argument", "semicolon"}
Tokens  == [symbol : Symbols, from : Place, to : Place]

Origin == [pos |-> 0, row |-> 0, col |-> 0]

Eof(at) == AtEnd(text, at.pos)

\* peekByte, at a position.
ByteAt(p) == IF AtEnd(text, p) THEN "eof" ELSE text[p + 1]

\* matchLiteralAtCurrent
Starts(at, word) ==
    /\ at.pos + Len(word) <= Len(text)
    /\ SubSeq(text, at.pos + 1, at.pos + Len(word)) = word

\* A loop: a step is taken until it leaves a value as it is.
Settled(S, start, step) ==
    LET Go[s \in S] == LET t == step[s] IN IF t = s THEN s ELSE Go[t]
    IN  Go[start]

\* advanceRune until a position is reached.  Where the code advances by bytes,
\* the bytes it has looked at are runes of their own.
RunesTo(place, p) ==
    Settled(Place, place,
            [at \in Place |-> IF at.pos >= p \/ Eof(at) THEN at ELSE OneRune(text, at)])

After(at, n) == RunesTo(at, at.pos + n)

\* Past a run of some bytes; up to the next of some bytes, or of a word.
Past(at, bytes) ==
    RunesTo(at, CHOOSE q \in at.pos .. Len(text) :
                   /\ ByteAt(q) \notin bytes
                   /\ \A r \in at.pos .. (q - 1) : ByteAt(r) \in bytes)

Upto(at, bytes) ==
    RunesTo(at, CHOOSE q \in at.pos .. Len(text) :
                   /\ ByteAt(q) \in bytes \cup {"eof"}
                   /\ \A r \in at.pos .. (q - 1) : ByteAt(r) \notin bytes)

UptoWord(at, word) ==
    RunesTo(at, CHOOSE q \in at.pos .. Len(text) :
                   /\ q = Len(text) \/ Starts([at EXCEPT !.pos = q], word)
                   /\ \A r \in at.pos .. (q - 1) : ~ Starts([at EXCEPT !.pos = r], word))

\* hasWordBoundaryAfter, where lexemeNeedsBoundary.
StandsAlone(at, word) ==
    word[Len(word)] \in WordPart => ByteAt(at.pos + Len(word)) \notin WordPart

-----------------------------------------------------------------------------
(* What a call of Next that finds nothing pending does: the tokens it      *)
(* makes, of which it returns the first, where it leaves the cursor, the   *)
(* source's own flags, and whether the source is done.                     *)

Reading(tokens, at, mode) == [tokens |-> tokens, at |-> at, mode |-> mode, done |-> FALSE]

One(symbol, from, to, mode) == Reading(<<Token(symbol, from, to)>>, to, mode)

\* eofToken
TheEnd(at) == Token("end", [at EXCEPT !.pos = Len(text)], [at EXCEPT !.pos = Len(text)])

Ended(at, mode) == [tokens |-> <<TheEnd(at)>>, at |-> at, mode |-> mode, done |-> TRUE]

\* The first that is found from a place on; where nothing is, a rune is passed over.
FirstRead(place, found) ==
    CHOOSE r \in found[Settled(Place, place,
                          [at \in Place |-> IF found[at] = {} /\ ~ Eof(at) THEN OneRune(text, at) ELSE at])] :
        TRUE

-----------------------------------------------------------------------------
(* Numbers, of which each source puts its own together.                    *)

Prefixed(at, marks) == ByteAt(at.pos) = "0" /\ ByteAt(at.pos + 1) \in marks

Unsigned(at) == IF ByteAt(at.pos) \in {"+", "-"} THEN After(at, 1) ELSE at

Fraction(at) ==
    IF ByteAt(at.pos) = "." THEN Past(After(at, 1), Numeric) ELSE at

FractionNotDots(at) == IF ByteAt(at.pos + 1) = "." THEN at ELSE Fraction(at)

Exponent(at, marks) ==
    IF ByteAt(at.pos) \in marks THEN Past(Unsigned(After(at, 1)), Numeric) ELSE at

-----------------------------------------------------------------------------
(* Strings.  A style says what an escape is: "rune", a backslash and a     *)
(* rune; "u", "u or x", "many u", a backslash and up to so many hexadecimal*)
(* digits; "doubled", the quote twice; "lost", one that makes no token;    *)
(* "none".                                                                 *)

HexRun(at, n) ==
    RunesTo(at, CHOOSE q \in at.pos .. (at.pos + n) :
                   /\ \A r \in at.pos .. (q - 1) : ByteAt(r) \in HexDigit
                   /\ q = at.pos + n \/ ByteAt(q) \notin HexDigit)

EscapeBegins(at, quote, style) ==
    CASE style = "none"    -> FALSE
      [] style = "doubled" -> Starts(at, quote \o quote)
      [] OTHER             -> ByteAt(at.pos) = "\\"

EscapeEnds(at, style) ==
    CASE style \in {"u", "u or x"} /\ ByteAt(at.pos + 1) = "u" -> HexRun(After(at, 2), 4)
      [] style = "u or x" /\ ByteAt(at.pos + 1) = "x" -> HexRun(After(at, 2), 2)
      [] style = "many u" /\ ByteAt(at.pos + 1) = "u" -> HexRun(Past(After(at, 1), {"u"}), 4)
      [] OTHER -> RunesTo(at, at.pos + 2)

Piece(symbol, from, to) == IF from.pos < to.pos THEN <<Token(symbol, from, to)>> ELSE << >>

\* scanDelimitedBody: from behind the opening quote to behind the closing
\* one, the content between escapes, the escapes and the closing quote; up to
\* the end, or a stop, if there is no closing quote.
Pieces == [at : Place, since : Place, tokens : Seq(Tokens)]

BodyOn(s, quote, style, stops) ==
    CASE Eof(s.at) \/ ByteAt(s.at.pos) \in stops -> s
      [] EscapeBegins(s.at, quote, style) ->
            [at |-> EscapeEnds(s.at, style), since |-> EscapeEnds(s.at, style),
             tokens |-> s.tokens \o Piece("content", s.since, s.at)
                        \o IF style = "lost" THEN << >>
                           ELSE Piece("escape", s.at, EscapeEnds(s.at, style))]
      [] Starts(s.at, quote) /\ ~ EscapeBegins(s.at, quote, style) -> s
      [] OTHER -> [s EXCEPT !.at = OneRune(text, @)]

Body(place, quote, style, stops) ==
    LET Closed(s) ==
          LET end == IF Eof(s.at) \/ ByteAt(s.at.pos) \in stops THEN s.at ELSE After(s.at, Len(quote))
          IN  [tokens |-> s.tokens \o Piece("content", s.since, s.at) \o Piece("close", s.at, end),
               at |-> end]
    IN  Closed(Settled(Pieces, [at |-> place, since |-> place, tokens |-> << >>],
                       [s \in Pieces |-> BodyOn(s, quote, style, stops)]))

\* A string split: the opening quote, then the pieces of its body.
SplitBehind(open, body, mode) == Reading(<<open>> \o body.tokens, body.at, mode)

Split(at, opener, quote, style, stops, mode) ==
    SplitBehind(Token("open", at, After(at, Len(opener))),
                Body(After(at, Len(opener)), quote, style, stops), mode)

\* A string in one token, with escapes of a rune.
Whole(symbol, at, quote, mode) ==
    LET On(p) == CASE Eof(p) \/ ByteAt(p.pos) = quote -> p
                   [] ByteAt(p.pos) = "\\" -> RunesTo(p, p.pos + 2)
                   [] OTHER -> OneRune(text, p)
        Closed(p) == IF Eof(p) THEN p ELSE After(p, 1)
    IN  One(symbol, at, Closed(Settled(Place, After(at, 1), [p \in Place |-> On(p)])), mode)

-----------------------------------------------------------------------------
(* Comments.                                                               *)

LineComment(at, mode) == One("comment", at, Upto(at, {"\n"}), mode)

BlockComment(at, mode) ==
    One("comment", at, After(UptoWord(After(at, 2), <<"*", "/">>), 2), mode)

-----------------------------------------------------------------------------
(* JSON: json_lexer.go.  What makes no token is passed over byte by byte.  *)

JsonMarks == {"{", "}", "[", "]", ":", ","}

\* numberToken: a place, in a set of at most one, behind each part.
JsonInteger(at) ==
    CASE ByteAt(at.pos) = "-" /\ ByteAt(at.pos + 1) = "0" -> {After(at, 2)}
      [] ByteAt(at.pos) = "-" /\ ByteAt(at.pos + 1) \in Digit -> {Past(After(at, 1), Digit)}
      [] ByteAt(at.pos) = "0" -> {After(at, 1)}
      [] ByteAt(at.pos) \in Digit \ {"0"} -> {Past(at, Digit)}
      [] OTHER -> {}

\* Digits that have to follow a mark.
JsonDigits(at) == IF ByteAt(at.pos) \in Digit THEN {Past(at, Digit)} ELSE {}

JsonFraction(at) == IF ByteAt(at.pos) = "." THEN JsonDigits(After(at, 1)) ELSE {at}

JsonExponent(at) == IF ByteAt(at.pos) = "e" THEN JsonDigits(Unsigned(After(at, 1))) ELSE {at}

JsonNumber(at) ==
    {Token("number", at, end) :
        end \in UNION {JsonExponent(f) : f \in UNION {JsonFraction(i) : i \in JsonInteger(at)}}}

\* literalToken
JsonLiteral(at) ==
    {Token("literal", at, After(at, Len(word))) :
        word \in {w \in {<<"t", "r", "u", "e">>, <<"f", "a", "l", "s", "e">>,
                         <<"n", "u", "l", "l">>} :
                     Starts(at, w) /\ ByteAt(at.pos + Len(w)) \notin WordStart \cup Digit}}

\* commentToken
JsonComment(at) ==
    CASE Starts(at, <<"/", "/">>) -> {LineComment(at, {}).tokens[1]}
      [] Starts(at, <<"/", "*">>) -> {BlockComment(at, {}).tokens[1]}
      [] OTHER                    -> {}

JsonAt(at) ==
    CASE Eof(at) -> {Ended(at, {})}
      [] ByteAt(at.pos) \in Space -> {}
      [] ByteAt(at.pos) \in JsonMarks -> {One("mark", at, After(at, 1), {})}
      [] ByteAt(at.pos) = "\"" -> {Split(at, <<"\"">>, <<"\"">>, "u", {}, {})}
      [] OTHER -> {Reading(<<t>>, t.to, {}) : t \in JsonComment(at) \cup JsonNumber(at) \cup JsonLiteral(at)}

ReadJson(place) == FirstRead(place, [at \in Place |-> JsonAt(at)])

-----------------------------------------------------------------------------
(* TOML: toml_lexer.go.  "started": the marker of the document's start has *)
(* been returned; "ended": so has the marker of the last line's end.       *)

\* The marker of a line's end has no width, and stands before the "\n".
TomlMarker(symbol, at, behind, mode) == Reading(<<Token(symbol, at, at)>>, behind, mode)

TomlLineEnd(at, mode) ==
    TomlMarker("line end", at, After(at, 1), IF Eof(After(at, 1)) THEN mode \cup {"ended"} ELSE mode)

\* punctToken
TomlPunct(at) ==
    CASE Starts(at, <<"[", "[">>) \/ Starts(at, <<"]", "]">>) -> {After(at, 2)}
      [] ByteAt(at.pos) \in {"=", ".", ",", "[", "]", "{", "}"} -> {After(at, 1)}
      [] OTHER -> {}

TomlNumberFrom(at, start, mode) ==
    IF Prefixed(at, {"x", "o", "b"})
    THEN One("integer", start, Past(After(at, 2), HexDigit \cup {"_"}), mode)
    ELSE LET Kind(i, end) == One(IF i = end THEN "integer" ELSE "float", start, end, mode)
         IN  Kind(Past(at, Numeric), Exponent(Fraction(Past(at, Numeric)), {"e"}))

TomlNumber(at, mode) == TomlNumberFrom(Unsigned(at), at, mode)

\* bareKeyOrBooleanToken
TomlBareKey(at, mode) == One("key", at, Past(at, Letter \cup Digit \cup {"_", "-"}), mode)

\* Behind the marker of the start.
TomlAt(at, mode) ==
    CASE Eof(at) -> {IF "ended" \in mode THEN Ended(at, mode)
                     ELSE TomlMarker("line end", at, at, mode \cup {"ended"})}
      [] ByteAt(at.pos) \in Gap -> {}
      [] ByteAt(at.pos) = "\n" -> {TomlLineEnd(at, mode)}
      [] ByteAt(at.pos) = "#" -> {LineComment(at, mode)}
      [] TomlPunct(at) # {} -> {One("mark", at, p, mode) : p \in TomlPunct(at)}
      [] ByteAt(at.pos) = "\"" -> {Split(at, <<"\"">>, <<"\"">>, "rune", {}, mode)}
      [] ByteAt(at.pos) = "'" -> {Split(at, <<"'">>, <<"'">>, "none", {}, mode)}
      [] ByteAt(at.pos) \in Digit \cup {"+", "-"} -> {TomlNumber(at, mode)}
      [] ByteAt(at.pos) \in WordStart -> {TomlBareKey(at, mode)}
      [] OTHER -> {}

ReadToml(place, mode) ==
    IF "started" \in mode THEN FirstRead(place, [at \in Place |-> TomlAt(at, mode)])
    ELSE TomlMarker("document", place, place, mode \cup {"started"})

-----------------------------------------------------------------------------
(* YAML: yaml_lexer.go.  "ended": the marker of the end has been returned. *)

YamlBlank == {" ", "\t"}
YamlBreak == {"\n", "\r"}
YamlFlow  == {",", "[", "]", "{", "}"}

\* newlineToken: "\r\n" is one.
YamlNewline(at, mode) ==
    One("line end", at, After(at, IF Starts(at, <<"\r", "\n">>) THEN 2 ELSE 1), mode)

\* isDocMarkerBoundary
YamlDocMarker(at) ==
    /\ Starts(at, <<"-", "-", "-">>) \/ Starts(at, <<".", ".", ".">>)
    /\ ByteAt(at.pos + 3) \in YamlBlank \cup YamlBreak \cup {"eof"}

\* An indicator only before a blank, or the end; a "\r" counts behind ":".
YamlIndicator(at) ==
    \/ /\ ByteAt(at.pos) \in {"-", "?"}
       /\ ByteAt(at.pos + 1) \in YamlBlank \cup {"\n", "eof"}
    \/ /\ ByteAt(at.pos) = ":"
       /\ ByteAt(at.pos + 1) \in YamlBlank \cup YamlBreak \cup {"eof"}
    \/ ByteAt(at.pos) \in YamlFlow \cup {"|", ">"}

\* scanAnchor, scanAlias: the mark, and the name behind it, if it has one.
YamlNamed(at, mode) ==
    Reading(<<Token("open", at, After(at, 1))>>
              \o Piece("content", After(at, 1), Upto(After(at, 1), YamlBlank \cup YamlBreak \cup YamlFlow)),
            Upto(After(at, 1), YamlBlank \cup YamlBreak \cup YamlFlow), mode)

YamlTag(at, mode) == One("tag", at, Upto(After(at, 1), YamlBlank \cup YamlBreak \cup YamlFlow), mode)

\* pointAtOffset: columns here are bytes, where the cursor's are runes.
YamlPointAt(p) ==
    Settled(Place, Origin,
            [at \in Place |-> IF at.pos >= p THEN at
                              ELSE Behind(at, [rune |-> ByteAt(at.pos), size |-> 1])])

\* Where a plain scalar stops.
YamlScalarStops(start, p) ==
    \/ ByteAt(p) \in YamlBreak \cup YamlFlow \cup {"eof"}
    \/ ByteAt(p) = "#" /\ p > start /\ ByteAt(p - 1) \in YamlBlank
    \/ ByteAt(p) = ":" /\ ByteAt(p + 1) \in YamlBlank \cup YamlBreak \cup {"eof"}

YamlScalarEnd(at) ==
    CHOOSE q \in at.pos .. Len(text) :
        YamlScalarStops(at.pos, q) /\ \A r \in at.pos .. (q - 1) : ~ YamlScalarStops(at.pos, r)

\* scanScalar: the cursor stops behind the blanks the token leaves out.
YamlScalar(at, mode) ==
    LET Trimmed(stop) ==
          CHOOSE q \in at.pos .. stop :
              /\ q = at.pos \/ ByteAt(q - 1) \notin YamlBlank
              /\ \A r \in q .. (stop - 1) : ByteAt(r) \in YamlBlank
        Made(stop) == Reading(<<Token("scalar", at, YamlPointAt(Trimmed(stop)))>>,
                              RunesTo(at, stop), mode)
    IN  Made(YamlScalarEnd(at))

YamlAt(at, mode) ==
    CASE Eof(at) -> {IF "ended" \in mode THEN Ended(at, mode)
                     ELSE Reading(<<Token("end marker", at, at)>>, at, mode \cup {"ended"})}
      [] ByteAt(at.pos) \in YamlBlank -> {}
      [] ByteAt(at.pos) \in YamlBreak -> {YamlNewline(at, mode)}
      [] ByteAt(at.pos) = "#" -> {One("comment", at, Upto(at, YamlBreak), mode)}
      [] YamlDocMarker(at) -> {One("mark", at, After(at, 3), mode)}
      [] ~ YamlDocMarker(at) /\ YamlIndicator(at) -> {One("mark", at, After(at, 1), mode)}
      [] ByteAt(at.pos) = "\"" -> {Split(at, <<"\"">>, <<"\"">>, "rune", {}, mode)}
      [] ByteAt(at.pos) = "'" -> {Split(at, <<"'">>, <<"'">>, "doubled", {}, mode)}
      [] ByteAt(at.pos) \in {"&", "*"} -> {YamlNamed(at, mode)}
      [] ByteAt(at.pos) = "!" -> {YamlTag(at, mode)}
      [] OTHER -> {YamlScalar(at, mode)}

ReadYaml(place, mode) == FirstRead(place, [at \in Place |-> YamlAt(at, mode)])

-----------------------------------------------------------------------------
(* HTML: html_lexer.go.  Flags: "tag", inside a tag; "closing", it is one  *)
(* that closes; "name", its name is to come.                               *)

HtmlNamePart == WordStart \cup Digit \cup {":", "-", "."}

\* commentToken, textToken.
HtmlComment(at) == One("comment", at, After(UptoWord(After(at, 4), <<"-", "-", ">">>), 3), {})
HtmlText(at)    == One("text", at, Upto(at, {"<"}), {})

HtmlOutside(at) ==
    CASE Starts(at, <<"<", "!", "-", "-">>) -> HtmlComment(at)
      [] Starts(at, <<"<", "/">>) -> One("</", at, After(at, 2), {"tag", "closing", "name"})
      [] Starts(at, <<"<">>) /\ ~ Starts(at, <<"<", "/">>) /\ ~ Starts(at, <<"<", "!", "-", "-">>) ->
            One("<", at, After(at, 1), {"tag", "name"})
      [] OTHER -> HtmlText(at)

\* nameToken
HtmlName(at, mode) ==
    One(CASE mode = {"tag", "closing", "name"} -> "end tag name"
          [] mode = {"tag", "name"}            -> "tag name"
          [] OTHER                             -> "attribute name",
        at, Past(at, HtmlNamePart), mode \ {"name"})

\* quotedAttributeValue
HtmlValue(at, mode) ==
    LET Closed(end) == IF Eof(end) THEN end ELSE After(end, 1)
    IN  One("attribute value", at, Closed(Upto(After(at, 1), {ByteAt(at.pos)})), mode)

HtmlInside(at, mode) ==
    CASE Eof(at) -> {Ended(at, mode)}
      [] Starts(at, <<"/", ">">>) -> {One("/>", at, After(at, 2), {})}
      [] ByteAt(at.pos) = ">" -> {One(">", at, After(at, 1), {})}
      [] ByteAt(at.pos) = "=" -> {One("=", at, After(at, 1), mode)}
      [] ByteAt(at.pos) \in {"\"", "'"} -> {HtmlValue(at, mode)}
      [] ByteAt(at.pos) \in WordStart \cup {":"} -> {HtmlName(at, mode)}
      [] OTHER -> {}

ReadHtml(place, mode) ==
    CASE Eof(place)      -> Ended(place, mode)
      [] "tag" \in mode  -> FirstRead(place, [at \in Place |-> HtmlInside(at, mode)])
      [] OTHER           -> HtmlOutside(place)

-----------------------------------------------------------------------------
(* What the sources of code share.                                         *)

\* literalToken, matchLiteral: the longest that fits, in a set of at most one.
LongestLiteral(at) ==
    LET fits == {w \in Literals : Starts(at, w) /\ StandsAlone(at, w)}
    IN  {After(at, Len(w)) : w \in {v \in fits : \A u \in fits : Len(u) <= Len(v)}}

HexOrDigits(at, marks) ==
    IF Prefixed(at, marks) THEN Past(After(at, 2), HexDigit \cup {"_"}) ELSE Past(at, Numeric)

-----------------------------------------------------------------------------
(* C: c_lexer.go.  A line that begins a directive is read on its own:      *)
(* "name" until its first word, "argument" behind it.  "#d" stands for the *)
(* directives that take one line, "#i" for the others.                     *)

CDirectives == {<<"#", "d">>}

\* isPreprocDirective, of a literal's text.
CAfterLiteral(at, end, mode) ==
    One("literal", at, end,
        IF SubSeq(text, at.pos + 1, end.pos) \in CDirectives THEN {"name"} ELSE mode)

\* identifierOrKeywordToken, and the state behind it.
CWord(at, mode) ==
    One("word", at, Past(at, WordStart \cup Digit), IF mode = {"name"} THEN {"argument"} ELSE mode)

\* numberToken: a suffix of letters is part of it.
CNumber(at, mode) ==
    One("number", at,
        Past(Exponent(Fraction(HexOrDigits(at, {"x"})), {"e", "p"}), WordStart \cup Digit), mode)

\* preprocArgToken: the rest of the line, and of those it is continued on.
CArgument(place, mode) ==
    LET On(at) == CASE Starts(at, <<"\\", "\n">>) -> After(at, 2)
                    [] ByteAt(at.pos) \in {"\n", "eof"} -> at
                    [] OTHER -> OneRune(text, at)
    IN  One("argument", place, Settled(Place, place, [at \in Place |-> On(at)]), mode)

\* stringToken, charToken: a prefix belongs to the quote.
COpeners == {<<"L", "\"">>, <<"\"">>, <<"L", "'">>, <<"'">>}

CString(at, opener, mode) ==
    Split(at, opener, <<opener[Len(opener)]>>, "u or x", {}, mode)

CPlain(at, mode) ==
    CASE Starts(at, <<"/", "/">>) -> LineComment(at, mode)
      [] Starts(at, <<"/", "*">>) -> BlockComment(at, mode)
      [] \E o \in COpeners : Starts(at, o) ->
            CString(at, CHOOSE o \in COpeners : Starts(at, o), mode)
      [] ByteAt(at.pos) \in WordStart /\ ~ \E o \in COpeners : Starts(at, o) -> CWord(at, mode)
      [] ByteAt(at.pos) \in Digit -> CNumber(at, mode)
      [] OTHER -> CAfterLiteral(at, CHOOSE e \in LongestLiteral(at) : TRUE, mode)

\* What CPlain makes a token of; the rest is passed over rune by rune.
CBegins(at) ==
    \/ ByteAt(at.pos) \in WordStart \cup Digit \cup {"\"", "'"}
    \/ Starts(at, <<"/", "/">>) \/ Starts(at, <<"/", "*">>)
    \/ LongestLiteral(at) # {}

\* A line's end is one only behind a directive.
CAt(at, mode) ==
    CASE Eof(at) -> {Ended(at, mode)}
      [] ByteAt(at.pos) \in Gap -> {}
      [] ByteAt(at.pos) = "\n" -> {One("line end", at, After(at, 1), {}) : flag \in mode}
      [] ByteAt(at.pos) \notin Space /\ mode = {"argument"} -> {CArgument(at, mode)}
      [] ByteAt(at.pos) \notin Space /\ mode # {"argument"} /\ CBegins(at) -> {CPlain(at, mode)}
      [] OTHER -> {}

ReadC(place, mode) == FirstRead(place, [at \in Place |-> CAt(at, mode)])

-----------------------------------------------------------------------------
(* Java: java_lexer.go.                                                    *)

JavaWord(at) == One("word", at, Past(at, WordPart), {})

\* numberToken: hexadecimal and binary numbers, the others, and a suffix.
JavaDigits(at) ==
    CASE Prefixed(at, {"x"}) ->
            LET hex(p) == IF ByteAt(p.pos) = "." THEN Past(After(p, 1), HexDigit \cup {"_"}) ELSE p
            IN  Exponent(hex(Past(After(at, 2), HexDigit \cup {"_"})), {"p"})
      [] Prefixed(at, {"b"}) -> Past(After(at, 2), {"0", "1", "_"})
      [] OTHER -> Exponent(FractionNotDots(Past(at, Numeric)), {"e"})

JavaNumber(at) ==
    One("number", at,
        IF ByteAt(JavaDigits(at).pos) \in {"f", "d", "L"} THEN After(JavaDigits(at), 1)
        ELSE JavaDigits(at), {})

JavaAt(at) ==
    LET Quotes == <<"\"", "\"", "\"">>
    IN  CASE Eof(at) -> {Ended(at, {})}
          [] ByteAt(at.pos) \in Space -> {}
          [] Starts(at, <<"/", "/">>) -> {LineComment(at, {})}
          [] Starts(at, <<"/", "*">>) -> {BlockComment(at, {})}
          [] Starts(at, Quotes) -> {Split(at, Quotes, Quotes, "rune", {}, {})}
          [] ByteAt(at.pos) = "\"" /\ ~ Starts(at, Quotes) ->
                {Split(at, <<"\"">>, <<"\"">>, "many u", {}, {})}
          [] ByteAt(at.pos) = "'" -> {Whole("char", at, "'", {})}
          [] ByteAt(at.pos) \in WordStart \cup {"$"} -> {JavaWord(at)}
          [] ByteAt(at.pos) \in Digit -> {JavaNumber(at)}
          [] OTHER -> {One("literal", at, e, {}) : e \in LongestLiteral(at)}

ReadJava(place) == FirstRead(place, [at \in Place |-> JavaAt(at)])

-----------------------------------------------------------------------------
(* Lua: lua_lexer.go.                                                      *)

\* commentToken: the dashes, and the rest of the line if there is any; a
\* long bracket behind the dashes is part of that line.
LuaComment(at) ==
    Reading(<<Token("open", at, After(at, 2))>>
              \o Piece("content", After(at, 2), Upto(After(at, 2), {"\n"})),
            Upto(After(at, 2), {"\n"}), {})

LuaNumber(at) ==
    One("number", at, Exponent(FractionNotDots(HexOrDigits(at, {"x"})), {"e", "p"}), {})

LuaAt(at) ==
    CASE Eof(at) -> {Ended(at, {})}
      [] at.pos = 0 /\ Starts(at, <<"#", "!">>) -> {One("shebang", at, Upto(at, {"\n"}), {})}
      [] ByteAt(at.pos) \in Space -> {}
      [] Starts(at, <<"-", "-">>) -> {LuaComment(at)}
      [] ByteAt(at.pos) \in {"\"", "'"} ->
            {Split(at, <<ByteAt(at.pos)>>, <<ByteAt(at.pos)>>, "rune", {}, {})}
      [] Starts(at, <<"[", "[">>) -> {Split(at, <<"[", "[">>, <<"]", "]">>, "none", {}, {})}
      [] Starts(at, <<".", ".", ".">>) -> {One("vararg", at, After(at, 3), {})}
      [] ByteAt(at.pos) \in WordStart -> {One("word", at, Past(at, WordStart \cup Digit), {})}
      [] ByteAt(at.pos) \in Digit -> {LuaNumber(at)}
      [] OTHER -> {One("literal", at, e, {}) : e \in LongestLiteral(at)}

ReadLua(place) == FirstRead(place, [at \in Place |-> LuaAt(at)])

-----------------------------------------------------------------------------
(* Authzed: authzed_lexer.go.  Ends of lines are tokens.                   *)

AuthzedNumber(at) ==
    LET Digits == CASE Prefixed(at, {"x"}) -> Past(After(at, 2), HexDigit \cup {"_"})
                    [] Prefixed(at, {"o", "b"}) -> Past(After(at, 2), {"0", "1", "_"})
                    [] OTHER -> Past(at, Numeric)
        Suffixed(end) == IF ByteAt(end.pos) = "i" THEN After(end, 1) ELSE end
    IN  One("number", at, Suffixed(Exponent(FractionNotDots(Digits), {"e"})), {})

\* multiCharOp, singleCharToken; "&^" counts only where a byte follows it.
AuthzedOperators == {<<"-", ">">>, <<"=", "=">>, <<"<", "=">>, <<"&", "&">>}
AuthzedMarks     == {"{", "}", "[", "]", ".", ",", "=", "+", "-", "*", "/", "&", "^", "<", ">", "#"}

AuthzedOperator(at) ==
    CASE \E w \in AuthzedOperators : Starts(at, w) -> {After(at, 2)}
      [] Starts(at, <<"&", "^">>) /\ at.pos + 2 < Len(text) -> {After(at, 2)}
      [] OTHER -> {After(at, 1) : b \in {ByteAt(at.pos)} \cap AuthzedMarks}

\* interpretedString: a line's end stops it; rawString, in backticks ("BQ"):
\* nothing does.
AuthzedAt(at) ==
    LET Raw(end) == IF Eof(end) THEN end ELSE After(end, 1)
    IN  CASE Eof(at) -> {Ended(at, {})}
          [] ByteAt(at.pos) \in Gap -> {}
          [] ByteAt(at.pos) = "\n" -> {One("line end", at, After(at, 1), {})}
          [] Starts(at, <<"/", "/">>) -> {LineComment(at, {})}
          [] ByteAt(at.pos) = "\"" -> {Split(at, <<"\"">>, <<"\"">>, "u or x", {"\n"}, {})}
          [] ByteAt(at.pos) = "BQ" -> {One("raw string", at, Raw(Upto(After(at, 1), {"BQ"})), {})}
          [] ByteAt(at.pos) \in Digit -> {AuthzedNumber(at)}
          [] ByteAt(at.pos) \in WordStart -> {One("word", at, Past(at, WordStart \cup Digit), {})}
          [] OTHER -> {One("operator", at, e, {}) : e \in AuthzedOperator(at)}

ReadAuthzed(place) == FirstRead(place, [at \in Place |-> AuthzedAt(at)])

-----------------------------------------------------------------------------
(* Any other grammar: generic_lexer.go, for one whose strings are split    *)
(* (whole = FALSE) or one token each (whole = TRUE).                       *)

\* commentToken, for a grammar that has comments: "#" begins one unless it
\* may begin a directive.
GenericComments(at) ==
    \/ Starts(at, <<"/", "/">>) \/ Starts(at, <<"-", "-">>)
    \/ /\ ByteAt(at.pos) = "#"
       /\ (at.pos = 0 \/ ByteAt(at.pos - 1) = "\n") => <<"#">> \notin Literals

\* In backticks ("BQ") an escape is passed over: no token has its bytes.
GenericString(at, whole) ==
    CASE Starts(at, <<"\"", "\"", "\"">>) ->
            Split(at, <<"\"", "\"", "\"">>, <<"\"", "\"", "\"">>, "rune", {}, {})
      [] ByteAt(at.pos) \in {"\"", "BQ"} /\ whole /\ ~ Starts(at, <<"\"", "\"", "\"">>) ->
            Whole("string", at, ByteAt(at.pos), {})
      [] OTHER -> Split(at, <<ByteAt(at.pos)>>, <<ByteAt(at.pos)>>,
                        IF ByteAt(at.pos) = "BQ" THEN "lost" ELSE "rune", {}, {})

GenericNumber(at) ==
    LET Kind(digits, end) == One(IF digits = end THEN "integer" ELSE "float", at, end, {})
        From(digits) == Kind(digits, Exponent(FractionNotDots(digits), {"e", "p"}))
    IN  From(HexOrDigits(at, {"x"}))

GenericAt(at, whole) ==
    CASE Eof(at) -> {Ended(at, {})}
      [] at.pos = 0 /\ Starts(at, <<"#", "!">>) -> {One("shebang", at, Upto(at, {"\n"}), {})}
      [] ByteAt(at.pos) \in Space -> {}
      [] GenericComments(at) -> {LineComment(at, {})}
      [] Starts(at, <<"/", "*">>) -> {BlockComment(at, {})}
      [] ByteAt(at.pos) \in {"\"", "BQ"} -> {GenericString(at, whole)}
      [] ByteAt(at.pos) = "'" ->
            {IF whole THEN Whole("char", at, "'", {}) ELSE Split(at, <<"'">>, <<"'">>, "rune", {}, {})}
      [] ByteAt(at.pos) \in WordStart \cup {"$"} -> {One("word", at, Past(at, WordPart \cup {"-"}), {})}
      [] ByteAt(at.pos) \in Digit -> {GenericNumber(at)}
      [] OTHER -> {One("literal", at, e, {}) : e \in LongestLiteral(at)}

ReadGeneric(place, whole) == FirstRead(place, [at \in Place |-> GenericAt(at, whole)])

-----------------------------------------------------------------------------
(* Go: go_lexer.go, over go/scanner.  The scanner's one flag "semicolon"   *)
(* is its insertSemi: whether the end of the line, or of the file, is a    *)
(* semicolon.  Symbols are those go/scanner gives its tokens.              *)

\* The literals of the scanner (external): where one ends, and how many "\r"
\* its text leaves out.
GoStringEnd(place) ==
    LET On(at) == CASE ByteAt(at.pos) \in {"\n", "eof", "\""} -> at
                    [] ByteAt(at.pos) = "\\" /\ ByteAt(at.pos + 1) \in {"\\", "\""} -> After(at, 2)
                    [] OTHER -> OneRune(text, at)
        Closed(at) == IF ByteAt(at.pos) = "\"" THEN After(at, 1) ELSE at
    IN  Closed(Settled(Place, After(place, 1), [at \in Place |-> On(at)]))

GoRawEnd(place) ==
    LET Closed(at) == IF Eof(at) THEN at ELSE After(at, 1)
    IN  Closed(Upto(After(place, 1), {"BQ"}))

GoReturns(from, to) == Cardinality({p \in from.pos .. (to.pos - 1) : ByteAt(p) = "\r"})

\* In a block comment a "\r" behind a "*" and before a "/" stays.
GoBlockReturns(from, to) ==
    LET Stays(p) == /\ ByteAt(p + 1) = "/"
                    /\ \E q \in (from.pos + 2) .. (p - 1) :
                          ByteAt(q) = "*" /\ \A r \in (q + 1) .. (p - 1) : ByteAt(r) = "\r"
    IN  Cardinality({p \in from.pos .. (to.pos - 1) : ByteAt(p) = "\r" /\ ~ Stays(p)})

\* Scan (external): what the scanner finds from a place on.  "BLOCK" is a block
\* comment that the semicolon of the first line's end in it comes behind.
Found(tok, from, to, lost, flags) ==
    [tok |-> tok, from |-> from, to |-> to, len |-> to.pos - from.pos - lost, mode |-> flags]

GoBlock(at, end, mode) ==
    IF mode # {} /\ Upto(at, {"\n"}).pos < end.pos
    THEN Found("BLOCK", at, end, GoBlockReturns(at, end), {})
    ELSE Found("COMMENT", at, end, GoBlockReturns(at, end), mode)

GoFound(at, mode) ==
    CASE Eof(at) -> {Found(IF mode = {} THEN "EOF" ELSE "line end", at, at, 0, {})}
      [] ByteAt(at.pos) \in Gap \/ (ByteAt(at.pos) = "\n" /\ mode = {}) -> {}
      [] ByteAt(at.pos) = "\n" /\ mode # {} -> {Found("line end", at, After(at, 1), 0, {})}
      [] ByteAt(at.pos) \in WordStart ->
            {Found("IDENT", at, Past(at, WordStart \cup Digit), 0, {"semicolon"})}
      [] ByteAt(at.pos) \in Digit -> {Found("INT", at, Past(at, Numeric), 0, {"semicolon"})}
      [] ByteAt(at.pos) = "\"" -> {Found("STRING", at, GoStringEnd(at), 0, {"semicolon"})}
      [] ByteAt(at.pos) = "BQ" ->
            {Found("RAW", at, GoRawEnd(at), GoReturns(at, GoRawEnd(at)), {"semicolon"})}
      [] Starts(at, <<"/", "/">>) ->
            {Found("COMMENT", at, Upto(at, {"\n"}), GoReturns(at, Upto(at, {"\n"})), mode)}
      [] Starts(at, <<"/", "*">>) -> {GoBlock(at, BlockComment(at, {}).at, mode)}
      [] ByteAt(at.pos) \in {")", "}"} -> {Found("operator", at, After(at, 1), 0, {"semicolon"})}
      [] ByteAt(at.pos) = "?" -> {Found("ILLEGAL", at, After(at, 1), 0, mode)}
      [] OTHER -> {Found("operator", at, After(at, 1), 0, {})}

GoScan(place, mode) == FirstRead(place, [at \in Place |-> GoFound(at, mode)])

\* offsetToPoint: columns are runes, and a rune is passed as a whole.
GoPoint(p) == [RunesTo(Origin, p) EXCEPT !.pos = p]

GoToken(symbol, from, to) == Token(symbol, GoPoint(from), GoPoint(to))

\* faulty variant: content also where there is nothing between the quotes.
GoSplitEmpty(f) ==
    LET last == f.from.pos + f.len
    IN  Reading(<<GoToken("open", f.from.pos, f.from.pos + 1),
                  GoToken("content", f.from.pos + 1, last - 1),
                  GoToken("close", last - 1, last)>>, f.to, f.mode)

\* splitString, splitRawString: the content is what is between the first and
\* the last byte of the literal's text, and the quotes those bytes.
GoSplit(f) ==
    LET last == f.from.pos + f.len
        content == IF last - 1 > f.from.pos + 1
                   THEN <<GoToken("content", f.from.pos + 1, last - 1)>> ELSE << >>
    IN  Reading(<<GoToken("open", f.from.pos, f.from.pos + 1)>> \o content
                   \o <<GoToken("close", last - 1, last)>>, f.to, f.mode)

\* The line's end in a comment is pending in the scanner, which returns it next.
GoBlockAndLineEnd(f, end) ==
    Reading(<<GoToken("COMMENT", f.from.pos, f.from.pos + f.len), GoToken("line end", end, end + 1)>>,
            f.to, f.mode)

\* Next: an automatic semicolon takes the byte of the line's end.
GoBridged(f) ==
    CASE f.tok = "EOF" -> [tokens |-> <<TheEnd(GoPoint(Len(text)))>>, at |-> f.to,
                           mode |-> f.mode, done |-> TRUE]
      [] f.tok \in {"STRING", "RAW"} -> GoSplit(f)
      [] f.tok = "BLOCK" -> GoBlockAndLineEnd(f, Upto(f.from, {"\n"}).pos)
      [] OTHER -> Reading(<<GoToken(f.tok, f.from.pos, f.from.pos + f.len)>>, f.to, f.mode)

\* What is illegal is passed over, and leaves the flag as it is.
GoAt(at, mode) == {GoBridged(f) : f \in {g \in {GoScan(at, mode)} : g.tok # "ILLEGAL"}}

ReadGo(place, mode) == FirstRead(place, [at \in Place |-> GoAt(at, mode)])
=============================================================================
