----------------------------- MODULE PythonScanner -----------------------------
(***************************************************************************)
(* The scanner of the Python grammar, grammars/python_scanner.go: ends of  *)
(* lines, indentation and strings.  It keeps the indentations of the open  *)
(* blocks, innermost last, behind a 0; the delimiters of the open strings; *)
(* and whether it is in a format string.                                   *)
(*                                                                         *)
(* The bytes that mean something to it are blanks and line ends, "#",      *)
(* "\\", the quotes "q" (single) and "Q" (double), the flags "f", "r" and  *)
(* "b", the letter "N", and braces.                                        *)
(***************************************************************************)
EXTENDS ExternalVM

Quotes == {"q", "Q"}
Delimiter == [quote : Quotes, flags : SUBSET {"f", "r", "b"}, triple : BOOLEAN]

PythonState == [indents : {s \in Seq(Nat) : s # << >> /\ s[1] = 0},
                delimiters : Seq(Delimiter), inside : BOOLEAN]

CreatePython == [indents |-> <<0>>, delimiters |-> << >>, inside |-> FALSE]

InnermostIsFirst(s) == s[1]     \* faulty variant
Innermost(s)        == s[Len(s)]
Outer(s)            == SubSeq(s, 1, Len(s) - 1)

\* The provers know of no literal that it is a string.
ASSUME OutcomesAreStrings ==
    {"indent", "dedent", "newline", "string_start", "string_content", "string_end",
     "escape_interpolation", "reading", "read", "failed"} \subseteq STRING

Emitted(lexer, symbol, py) ==
    [outcome |-> "emitted", lexer |-> SetResultSymbol(lexer, symbol), state |-> py]
Failed(lexer, py) == [outcome |-> "failed", lexer |-> lexer, state |-> py]

Lexing == [begin : Place, at : Place, end : Place, result : SUBSET STRING]

\* Past the lookahead if it is one of some runes.
Over(text, lexer, runes, skip) ==
    IF Lookahead(text, lexer) \in runes THEN Advance(text, lexer, skip) ELSE lexer

\* Past "\r", "\n" or both.
PastBreak(text, lexer) == Over(text, Over(text, lexer, {"\r"}, FALSE), {"\n"}, FALSE)
-----------------------------------------------------------------------------
(* Inside a string.                                                        *)

\* "{{" or "}}" in a format string; one brace alone is no token of this scanner.
EscapeInterpolation(text, lexer, py) ==
    LET Second(one) ==
          IF Lookahead(text, one) = Lookahead(text, lexer)
          THEN Emitted(MarkEnd(Advance(text, one, FALSE)), "escape_interpolation", py)
          ELSE Failed(one, py)
    IN  Second(Advance(text, MarkEnd(lexer), FALSE))

StringEndStaysOpen(lexer, py) ==      \* faulty variant
    Emitted(MarkEnd(lexer), "string_end", [py EXCEPT !.inside = FALSE])

StringEnd(lexer, py) ==
    Emitted(MarkEnd(lexer), "string_end",
            [py EXCEPT !.delimiters = Outer(@), !.inside = FALSE])

\* At a quote of the string's kind.  Three of them end a triple-quoted string;
\* fewer are content of it.
AtQuote(text, lexer, py, some) ==
    LET d       == Innermost(py.delimiters)
        here    == MarkEnd(lexer)
        more(l) == Lookahead(text, l) = d.quote
        Second(two) ==
           CASE ~ more(two)         -> Emitted(MarkEnd(two), "string_content", py)
             [] more(two) /\ some   -> Emitted(here, "string_content", py)
             [] more(two) /\ ~ some -> StringEnd(Advance(text, two, FALSE), py)
        First(one) ==
           CASE ~ d.triple /\ some   -> Emitted(here, "string_content", py)
             [] ~ d.triple /\ ~ some -> StringEnd(one, py)
             [] d.triple /\ ~ more(one) -> Emitted(MarkEnd(one), "string_content", py)
             [] d.triple /\ more(one)   -> Second(Advance(text, one, FALSE))
    IN  First(Advance(text, here, FALSE))

\* A round of the loop: what is read on with, a token, or none.  At the end of
\* the text the scan goes on to the layout from there: no outcome.
Piece(text, l, some, py) ==
    LET d      == Innermost(py.delimiters)
        r      == Lookahead(text, l)
        on     == Advance(text, l, FALSE)
        letter == Advance(text, MarkEnd(l), FALSE)
        Goes(outcome, x) == [outcome |-> outcome, lexer |-> x, state |-> py]
        upto   == IF some THEN Emitted(MarkEnd(l), "string_content", py) ELSE Failed(l, py)
    IN CASE r = EndOfText -> Goes("running", l)
         [] r \in {"{", "}"} /\ "f" \in d.flags -> upto
         [] r = "\\" /\ "r" \in d.flags ->
               Goes("reading", PastBreak(text, Over(text, on, {d.quote, "\\"}, FALSE)))
         [] r = "\\" /\ "r" \notin d.flags ->
               IF "b" \in d.flags /\ Lookahead(text, letter) = "N"
               THEN Goes("reading", Advance(text, Advance(text, letter, FALSE), FALSE))
               ELSE upto
         [] r = d.quote -> AtQuote(text, l, py, some)
         [] r = "\n" /\ some /\ ~ d.triple -> Failed(l, py)
         [] OTHER -> Goes("reading", on)

\* Content up to what ends it.  Escapes in a raw string do not count as content.
Content(text, lexer, py) ==
    LET Some(c) == \/ c.some
                   \/ ~ (Lookahead(text, c.lexer) = "\\" /\ "r" \in Innermost(py.delimiters).flags)
        Run[c \in [lexer : Lexing, some : BOOLEAN]] ==
          LET m == Piece(text, c.lexer, c.some, py)
          IN  IF m.outcome = "reading" THEN Run[[lexer |-> m.lexer, some |-> Some(c)]] ELSE m
    IN  Run[[lexer |-> lexer, some |-> FALSE]]
-----------------------------------------------------------------------------
(* Between tokens: blanks, line ends and comments are skipped, and the     *)
(* indentation of the line that follows is counted.                        *)

NotSeen == -1

Wrapped(n) == n % 65536     \* uint16

\* A comment and the line end behind it.
PastComment(text, lexer) ==
    LET Run[l \in Lexing] ==
          IF Lookahead(text, l) \in {EndOfText, "\n"} THEN Advance(text, l, TRUE)
          ELSE Run[Advance(text, l, TRUE)]
    IN  Run[lexer]

\* A round of the loop over what is between two tokens: it is read on, read to
\* its end, or no scan goes on from there.
LayoutOn(text, s, valid) ==
    LET r    == Lookahead(text, s.lexer)
        on   == Advance(text, s.lexer, TRUE)
        line == Over(text, on, {"\r"}, TRUE)       \* Behind a "\\"
    IN CASE r = "\n" -> [s EXCEPT !.lexer = on, !.eol = TRUE, !.indent = 0]
         [] r = " "  -> [s EXCEPT !.lexer = on, !.indent = Wrapped(@ + 1)]
         [] r = "\t" -> [s EXCEPT !.lexer = on, !.indent = Wrapped(@ + 8)]
         [] r = "\r" -> [s EXCEPT !.lexer = on, !.indent = 0]
         [] r = "#" /\ valid \cap {"indent", "dedent", "newline", "except"} # {} ->
               IF ~ s.eol THEN [s EXCEPT !.outcome = "failed"]
               ELSE [s EXCEPT !.lexer = PastComment(text, @), !.indent = 0,
                              !.comment = IF @ = NotSeen THEN s.indent ELSE @]
         [] r = "\\" -> IF Lookahead(text, line) \in {"\n", EndOfText}
                        THEN [s EXCEPT !.lexer = Advance(text, line, TRUE)]
                        ELSE [s EXCEPT !.outcome = "failed"]
         [] r = EndOfText -> [s EXCEPT !.indent = 0, !.eol = TRUE, !.outcome = "read"]
         [] OTHER -> [s EXCEPT !.outcome = "read"]

Lined == [lexer : Lexing, eol : BOOLEAN, indent : Nat, comment : Int, outcome : STRING]
Layout(text, lexer, valid) ==
    LET Run[s \in Lined] == IF s.outcome # "reading" THEN s ELSE Run[LayoutOn(text, s, valid)]
    IN  Run[[lexer |-> MarkEnd(lexer), eol |-> FALSE, indent |-> 0, comment |-> NotSeen,
             outcome |-> "reading"]]

\* The tokens that an end of line may stand for, in the order they are tried.
Closers == {"close_brace", "close_paren", "close_bracket"}
LineTokens(text, line, py, valid, recovering) ==
    LET current == Innermost(py.indents)
        quoted  == "string_start" \in valid /\ Lookahead(text, line.lexer) \in Quotes
    IN  IF ~ line.eol THEN << >>
        ELSE IF "indent" \in valid /\ line.indent > current
             THEN <<Emitted(line.lexer, "indent", [py EXCEPT !.indents = Append(@, line.indent)])>>
        ELSE IF /\ \/ "dedent" \in valid
                   \/ "newline" \notin valid /\ ~ quoted /\ valid \cap Closers = {}
                /\ line.indent < current /\ ~ py.inside /\ line.comment < current
             THEN <<Emitted(line.lexer, "dedent", [py EXCEPT !.indents = Outer(@)])>>
        ELSE IF "newline" \in valid /\ ~ recovering
             THEN <<Emitted(line.lexer, "newline", py)>>
        ELSE << >>
-----------------------------------------------------------------------------
(* At the beginning of a string: its flags and its quotes.                 *)

\* One, two or three quotes: two are the start and the end of an empty string.
Quoted(text, one, quote, flags, py) ==
    LET Opened(two, three) ==
          LET triple == three.at.pos = one.at.pos + 2
          IN  Emitted(IF triple THEN MarkEnd(three) ELSE two, "string_start",
                 [py EXCEPT !.delimiters = Append(@, [quote |-> quote, flags |-> flags,
                                                      triple |-> triple]),
                            !.inside = "f" \in flags])
        More(two) == Opened(two, Over(text, two, {quote}, FALSE))
    IN  More(Over(text, one, {quote}, FALSE))

Flags == {"f", "r", "b"}
StringStart(text, lexer, py) ==
    LET Run[c \in [lexer : Lexing, flags : SUBSET Flags]] ==
          LET r == Lookahead(text, c.lexer)
          IN  IF r \in Flags
              THEN Run[[lexer |-> Advance(text, c.lexer, FALSE), flags |-> c.flags \cup {r}]]
              ELSE IF r \in Quotes
              THEN Quoted(text, MarkEnd(Advance(text, c.lexer, FALSE)), r, c.flags, py)
              ELSE Failed(c.lexer, py)
    IN  Run[[lexer |-> lexer, flags |-> {}]]
-----------------------------------------------------------------------------
\* Behind the layout: a token for the line end, or the start of a string.
AfterLayout(text, line, py, valid, ended) ==
    CASE line.outcome = "read" /\ ended # << >> -> ended[1]
      [] line.outcome = "read" /\ ended = << >> /\ line.comment = NotSeen /\ "string_start" \in valid ->
            StringStart(text, line.lexer, py)
      [] OTHER -> Failed(line.lexer, py)

\* Scan: what a string goes on with, and then the layout.
ScanPython(text, lexer, py, valid) ==
    LET recovering == {"string_content", "indent"} \subseteq valid
        inString   == py.delimiters # << >> /\ ~ recovering
        Line(line) == AfterLayout(text, line, py, valid,
                                  LineTokens(text, line, py, valid, recovering))
        Between(content) ==
           IF content.outcome # "running" THEN content
           ELSE Line(Layout(text, content.lexer, valid))
    IN  IF /\ inString /\ "escape_interpolation" \in valid
           /\ Lookahead(text, lexer) \in {"{", "}"}
           /\ "f" \in Innermost(py.delimiters).flags
        THEN EscapeInterpolation(text, lexer, py)
        ELSE Between(IF inString /\ "string_content" \in valid THEN Content(text, lexer, py)
                     ELSE [outcome |-> "running", lexer |-> lexer, state |-> py])
=============================================================================
