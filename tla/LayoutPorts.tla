------------------------------ MODULE LayoutPorts ------------------------------
(***************************************************************************)
(* Scanners for which the margin of a line means something: lines that     *)
(* end, blocks that open and close, and the lines of embedded programs.    *)
(* A stack of margins begins with 0, which is never taken off.             *)
(***************************************************************************)
EXTENDS ScannerKit

Indented(name) == Port(name, <<"newline", "indent", "dedent">>, <<0>>)
Caddy     == Indented("caddy")
Nginx     == Indented("nginx")
Pug       == Indented("pug")
Firrtl    == Indented("firrtl")
Agda      == Indented("agda")
Earthfile == Port("earthfile", <<"indent", "dedent">>, [indent |-> 0, ended |-> FALSE])
Just      == Port("just", <<"indent", "dedent", "newline", "text", "error_recovery">>,
                  [indent |-> 0, braces |-> 0, ended |-> FALSE])
Cairo     == Port("cairo", <<"hint_start", "python_code_line", "failure">>,
                  [margin |-> 0, context |-> "none", quotes |-> 0])
Beancount == Port("beancount", <<"stars", "section_end", "eof">>, [stars |-> <<0>>, ended |-> FALSE])
-----------------------------------------------------------------------------
(* Caddy and nginx: a margin is counted where a call begins a line.        *)

ScanCaddy(l, indents, valid) ==
    LET m == Columns(Mark(l), 0)
        counted == Look(l) \notin {"\n"} \cup AtEOF /\ l.at.col = 0
    IN  FirstOf(
          Try(Look(l) = "\n" /\ "newline" \in valid, Emit(Skip(l), "newline", indents))
          \o Try(counted /\ m.indent > TopOf(indents) /\ "indent" \in valid,
                 Emit(m.lexer, "indent", Append(indents, m.indent)))
          \o Try(counted /\ m.indent < TopOf(indents) /\ "dedent" \in valid,
                 Emit(m.lexer, "dedent", Front(indents))), indents)
ScanNginx(l, indents, valid) == ScanCaddy(l, indents, valid)
-----------------------------------------------------------------------------
(* Pug, FIRRTL and Agda: the margin of the next line with something on it. *)

RECURSIVE DashNested(_, _)
\* Behind "{-", to the end of the comment.
DashNested(l, depth) ==
    CASE depth = 0 \/ Look(l) = EndOfText -> l
      [] Look(l) = "{" -> IF Look(Skip(l)) = "-" THEN DashNested(SkipAlong(l, "{-"), depth + 1)
                          ELSE DashNested(Skip(l), depth)
      [] Look(l) = "-" -> IF Look(Skip(l)) = "}" THEN DashNested(SkipAlong(l, "-}"), depth - 1)
                          ELSE DashNested(Skip(l), depth)
      [] OTHER -> DashNested(Skip(l), depth)

\* What a language passes over in a margin, apart from blanks and lines: the
\* place behind it, and whether the margin begins there again.
NoMargin == [lexer |-> {}, again |-> FALSE]
Past(l, again) == [lexer |-> {l}, again |-> again]
FirrtlGap(l) ==
    LET line == Skip(l)
        next == IF Look(line) = "\r" THEN Skip(line) ELSE line
    IN  CASE Look(l) = "#"  -> Past(Skip(SkipUntil(l, {"\n"})), TRUE)
          [] Look(l) = "\\" /\ Look(next) \in {"\n"} \cup AtEOF -> Past(Skip(next), FALSE)
          [] OTHER -> NoMargin
AgdaGap(l, eol) ==
    LET next == Skip(l)
    IN  CASE Look(l) = "-" /\ Look(next) = "-" -> Past(SkipUntil(next, {"\n"}), TRUE)
          [] Look(l) = "{" /\ Look(next) = "-" -> Past(DashNested(Skip(next), 1), TRUE)
          [] Look(l) \in {"-", "{"} /\ Look(next) # "-" /\ eol -> Past(next, FALSE)
          [] OTHER -> NoMargin

\* Every rune that could begin a gap ends the scan if it does not.
GapsIn(name) == CASE name = "pug" -> {} [] name = "firrtl" -> {"#", "\\"} [] name = "agda" -> {"-", "{"}
GapAt(name, l, eol) == IF name = "firrtl" THEN FirrtlGap(l) ELSE AgdaGap(l, eol)

RECURSIVE Margin(_, _)
Margin(m, name) ==
    LET l == m.lexer
        gap == GapAt(name, l, m.eol)
        Goes(next, n) == Margin([m EXCEPT !.lexer = next, !.indent = n], name)
    IN  CASE Look(l) = "\n" -> Margin([lexer |-> Skip(l), indent |-> 0, eol |-> TRUE], name)
          [] Look(l) = " "  -> Goes(Skip(l), m.indent + 1)
          [] Look(l) = "\t" -> Goes(Skip(l), m.indent + IF name = "pug" THEN 2 ELSE 8)
          [] Look(l) \in {"\r", "\f"} -> Goes(Skip(l), 0)
          [] Look(l) = EndOfText -> [m EXCEPT !.indent = 0, !.eol = TRUE]
          [] Look(l) \in GapsIn(name) ->
               IF gap.lexer = {} THEN [m EXCEPT !.eol = FALSE]
               ELSE Goes(CHOOSE next \in gap.lexer : TRUE, IF gap.again THEN 0 ELSE m.indent)
          [] OTHER -> m

ScanLayout(name, l, indents, valid) ==
    LET m   == Margin([lexer |-> Mark(l), indent |-> 0, eol |-> FALSE], name)
        top == TopOf(indents)
    IN  IF ~m.eol THEN Fail(indents)
        ELSE FirstOf(
          Try("indent" \in valid /\ m.indent > top,
              Emit(m.lexer, "indent", Append(indents, m.indent)))
          \o Try(("dedent" \in valid \/ "newline" \notin valid) /\ m.indent < top,
                 Emit(m.lexer, "dedent", Front(indents)))
          \o Try("newline" \in valid, Emit(m.lexer, "newline", indents)), indents)
ScanPug(l, indents, valid)    == ScanLayout("pug", l, indents, valid)
ScanFirrtl(l, indents, valid) == ScanLayout("firrtl", l, indents, valid)
ScanAgda(l, indents, valid)   == ScanLayout("agda", l, indents, valid)
-----------------------------------------------------------------------------
(* Earthfiles and justfiles: one block at a time, which the end closes.    *)

EarthfileAtEnd(l, s, valid) ==
    IF ~s.ended /\ "dedent" \in valid /\ s.indent # 0
    THEN EmitHere(l, "dedent", [s EXCEPT !.ended = TRUE]) ELSE Fail(s)

RECURSIVE OverLines(_)
OverLines(l) == CASE Look(l) \in Space \ Blanks -> OverLines(Adv(l))
                  [] Look(l) \in Blanks         -> OverLines(Skip(l))
                  [] OTHER -> l

\* A block that opens where none is open, or one that closes at column 0.
OneBlock(l, s, valid) ==
    Try(l.at.col > s.indent /\ "indent" \in valid /\ s.indent = 0,
        Emit(l, "indent", [s EXCEPT !.indent = l.at.col]))
    \o Try(l.at.col < s.indent /\ "dedent" \in valid /\ l.at.col = 0,
           Emit(l, "dedent", [s EXCEPT !.indent = 0]))

ScanEarthfile(l, s, valid) ==
    LET next == OverLines(l)
    IN  CASE Look(l) = EndOfText \/ (valid # {} /\ Look(next) = EndOfText) ->
               EarthfileAtEnd(IF Look(l) = EndOfText THEN l ELSE next, s, valid)
          [] OTHER -> FirstOf(OneBlock(next, s, valid), s)

JustAtEnd(l, s, valid) ==
    FirstOf(Try("dedent" \in valid, EmitHere(l, "dedent", s))
            \o Try("newline" \in valid /\ ~s.ended,
                   EmitHere(l, "newline", [s EXCEPT !.ended = TRUE])), s)

\* Behind "{{": the lexer behind "}}", or where the line ends without it.
RECURSIVE Interpolation(_), PastBraces(_, _)
Interpolation(l) ==
    LET one == Adv(l)
        two == Adv(one)
    IN  CASE Look(l) \in {"\n"} \cup AtEOF -> [lexer |-> l, closed |-> FALSE]
          [] Look(l) # "\n" /\ Look(one) = "}" /\ Look(two) = "}" -> [lexer |-> two, closed |-> TRUE]
          [] OTHER -> Interpolation(IF Look(one) = "}" THEN two ELSE one)

PastBraces(l, s) ==
    IF Look(l) = "{" /\ s.braces > 0 THEN PastBraces(Adv(l), [s EXCEPT !.braces = @ - 1])
    ELSE [lexer |-> l, state |-> s]

\* Text to the end of its line or to an interpolation; once: some was read.
\* A "#" that begins it is read with the rune behind it.
RECURSIVE JustText(_, _, _, _)
JustText(l, s, once, valid) ==
    LET sharp  == ~once /\ Look(l) = "#"
        line   == Until(IF sharp THEN Adv(Adv(l)) ELSE l, {"\n", "{"})
        some   == once \/ Went(l, line)
        brace  == Adv(Mark(line))
        open   == While(Adv(brace), {"{"})
        now    == [s EXCEPT !.braces = @ + (open.at.pos - brace.at.pos - 1)]
        inside == Interpolation(open)
        Text(at, state) == IF some THEN Emit(at, "text", state) ELSE Fail(state)
    IN  CASE Look(l) = EndOfText -> JustAtEnd(l, s, valid)
          [] sharp /\ Look(Adv(l)) = "!" -> Fail(s)
          [] OTHER ->
        CASE Look(line) \in {"\n"} \cup AtEOF ->
               IF some THEN Text(Mark(line), s) ELSE JustText(Adv(line), s, FALSE, valid)
          [] Look(line) = "{" /\ Look(brace) \in {"\n"} \cup AtEOF -> Text(Mark(brace), s)
          [] Look(line) = "{" /\ Look(brace) = "{" ->
               IF inside.closed \/ ~some THEN Text(inside.lexer, now)
               ELSE JustText(inside.lexer, now, TRUE, valid)
          [] OTHER -> JustText(brace, s, some, valid)

ScanJust(l, s, valid) ==
    LET escape  == Look(l) = "\\"
        blanks  == SkipWhile(IF escape THEN Skip(l) ELSE l, Space \ {"\n"})
        eol     == Look(blanks) = "\n"
        next    == IF "newline" \notin valid THEN l ELSE IF eol THEN Skip(blanks) ELSE blanks
        blocks  == valid \cap {"indent", "dedent"} # {}
        margin  == IF blocks THEN SkipWhile(next, Blanks \cup (IF "indent" \in valid THEN {} ELSE {"\n"}))
                   ELSE next
        one     == OneBlock(margin, s, valid)
        begin   == PastBraces(margin, s)
    IN  CASE Look(l) = EndOfText -> JustAtEnd(l, s, valid)
          [] Look(l) # EndOfText /\ "newline" \in valid /\ eol /\ ~escape -> Emit(next, "newline", s)
          [] OTHER ->
        CASE blocks /\ Look(margin) \in Space -> Fail(s)
          [] blocks /\ Look(margin) = EndOfText -> JustAtEnd(margin, s, valid)
          [] blocks /\ Look(margin) \notin Space \cup AtEOF /\ one # << >> -> Head(one)
          [] OTHER ->
             IF "text" \notin valid \/ (margin.at.col = s.indent /\ Look(margin) \in {"\n", "@", "-"})
             THEN Fail(s)
             ELSE JustText(begin.lexer, begin.state, Went(margin, begin.lexer), valid)
-----------------------------------------------------------------------------
(* Beancount: sections, which begin with so many stars.  One that begins   *)
(* ends those with as many or more, one section in each call.              *)

ScanBeancount(l, s, valid) ==
    LET begin == SkipWhile(Mark(l), Blanks)
        stars == SkipWhile(Mark(begin), {"*", "#"})
        count == stars.at.pos - begin.at.pos
        head  == ~Went(l, begin) /\ Went(begin, stars) /\ Look(stars) \in Space
    IN  IF valid = {"stars", "section_end", "eof"} THEN Fail(s)
        ELSE IF Look(begin) = EndOfText
        THEN FirstOf(Try("section_end" \in valid, Emit(begin, "section_end", s))
                     \o Try("eof" \in valid /\ ~s.ended, Emit(begin, "eof", [s EXCEPT !.ended = TRUE])), s)
        ELSE FirstOf(Try(head /\ "section_end" \in valid /\ count <= TopOf(s.stars),
                         Emit(stars, "section_end", [s EXCEPT !.stars = Front(@)]))
                     \o Try(head /\ "stars" \in valid,
                            Emit(stars, "stars", [s EXCEPT !.stars = Append(@, count)])), s)
-----------------------------------------------------------------------------
(* Cairo: the lines of Python between "%{" and "%}".  The state is the     *)
(* least margin of a line so far, and whether a string is open, and with   *)
(* how many quotes; any quote ends it.                                     *)

InCode(s) == [s EXCEPT !.context = "code", !.quotes = 0]

RECURSIVE HintLine(_, _, _), HintMargin(_, _, _)
HintLine(l, s, some) ==
    LET r       == Look(l)
        string  == s.context = "string"
        one     == Adv(l)
        closing == AtMost(one, {r}, s.quotes - 1)
        opening == AtMost(one, {r}, 2)
        opened  == IF Covers(one, opening, 1) THEN InCode(s)
                   ELSE [s EXCEPT !.context = "string", !.quotes = opening.at.pos - l.at.pos]
        outside == [s EXCEPT !.context = "none"]
    IN  CASE r = EndOfText -> Fail(s)
          [] r \in {"'", "\""} /\ string ->
               IF Covers(l, closing, s.quotes) THEN HintLine(closing, InCode(s), TRUE)
               ELSE Fail(InCode(s))
          [] r \in {"'", "\""} /\ ~string -> HintLine(opening, opened, TRUE)
          [] r = "%" /\ ~string ->
               IF Look(one) # "}" THEN HintLine(Adv(Mark(l)), s, some)
               ELSE IF some THEN Emit(Adv(Mark(l)), "python_code_line", outside) ELSE Fail(outside)
          [] r = "\n" -> EmitHere(one, "python_code_line", s)
          [] r = "#" /\ ~string -> HintLine(Until(l, {"\n"}), outside, TRUE)
          [] OTHER -> HintLine(one, s, TRUE)

HintMargin(l, n, s) ==
    LET wide == n + IF Look(l) = "\t" THEN 8 ELSE 1
    IN  CASE Look(l) = "\n" -> EmitHere(Adv(l), "python_code_line", s)
          [] Look(l) \in Space \ {"\n"} ->
               IF s.margin > 0 /\ wide = s.margin THEN HintLine(Skip(l), s, FALSE)
               ELSE HintMargin(Skip(l), wide, s)
          [] OTHER -> HintLine(l, IF Look(l) # EndOfText /\ (s.margin = 0 \/ n < s.margin)
                                  THEN [s EXCEPT !.margin = n] ELSE s, FALSE)

\* A "%" where a hint may begin has been skipped when lines are looked for.
ScanCairo(l, s, valid) ==
    LET hint == "hint_start" \in valid /\ Look(l) = "%"
        from == IF hint THEN Skip(l) ELSE l
        line == IF Look(from) = "\n" THEN Skip(from) ELSE from
        sign == IF Look(line) = "%" THEN Adv(Mark(line)) ELSE line
    IN  CASE "failure" \in valid -> Fail(s)
          [] "failure" \notin valid /\ hint /\ Look(from) = "{" -> Fail([s EXCEPT !.context = "code"])
          [] OTHER ->
             IF "python_code_line" \notin valid THEN Fail(s)
             ELSE IF ~(Went(line, sign) /\ Look(sign) = "}") THEN HintMargin(sign, 0, s)
             ELSE IF s.context = "string" THEN Emit(sign, "failure", s)
             ELSE Fail([s EXCEPT !.context = "none"])
=============================================================================
