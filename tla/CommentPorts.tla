------------------------------ MODULE CommentPorts ------------------------------
(***************************************************************************)
(* Scanners without a state: of comments, most of which may be nested, and *)
(* of what else these languages leave to them; and of one token of text:   *)
(* the content of a string up to what ends or interrupts it, a line, a     *)
(* word in front of a sign.                                                *)
(***************************************************************************)
EXTENDS ScannerKit

Uxntal   == Port("uxntal", <<"comment">>, NoState)
Dhall    == Port("dhall", <<"block_comment_content", "block_comment_end">>, NoState)
Wgsl     == Port("wgsl", <<"block_comment">>, NoState)
Tablegen == Port("tablegen", <<"multiline_comment">>, NoState)
Wolfram  == Port("wolfram", <<"comment">>, NoState)
Kdl      == Port("kdl", <<"eof", "multi_line_comment", "raw_string">>, NoState)
Ron      == Port("ron", <<"string_content", "raw_string", "float", "block_comment">>, NoState)
DLang    == Port("d", <<"directive", "string">>, NoState)
Dart     == Port("dart", <<"template_chars_double", "template_chars_single",
                           "template_chars_double_single", "template_chars_single_single",
                           "template_chars_raw_slash", "block_comment",
                           "documentation_block_comment">>, NoState)
Julia    == Port("julia", <<"block_comment_rest", "immediate_paren", "immediate_bracket",
                            "immediate_brace", "immediate_string_start", "immediate_command_start",
                            "content_cmd_1", "content_cmd_1_raw", "content_cmd_3", "content_cmd_3_raw",
                            "content_str_1", "content_str_1_raw", "content_str_3", "content_str_3_raw",
                            "end_cmd", "end_str">>, NoState)

RECURSIVE Parens(_, _)
Parens(l, depth) ==
    IF depth = 0 \/ Look(l) = EndOfText THEN l
    ELSE Parens(Adv(l), CASE Look(l) = "(" -> depth + 1 [] Look(l) = ")" -> depth - 1 [] OTHER -> depth)

ScanUxntal(l, valid) ==
    IF "comment" \in valid /\ Look(l) = "("
    THEN EmitHere(Parens(Adv(l), 1), "comment", NoState) ELSE Fail(NoState)

\* The end is marked at every "-": in front of the last one.
RECURSIVE DhallBody(_, _)
DhallBody(l, depth) ==
    IF depth = 0 THEN {l}
    ELSE CASE Look(l) = EndOfText -> {}
           [] Look(l) = "{" -> IF Look(Adv(l)) = "-" THEN DhallBody(Adv(Adv(l)), depth + 1)
                               ELSE DhallBody(Adv(l), depth)
           [] Look(l) = "-" -> LET past == Adv(Mark(l))
                               IN DhallBody(past, IF Look(past) = "}" THEN depth - 1 ELSE depth)
           [] OTHER -> DhallBody(Adv(l), depth)

ScanDhall(l, valid) ==
    LET body == IF "block_comment_content" \in valid THEN DhallBody(l, 1) ELSE {}
    IN  IF body = {} THEN Fail(NoState)
        ELSE Emit(CHOOSE b \in body : TRUE, "block_comment_content", NoState)

\* Behind "/*": behind the "*/" that ends it, if one does.  Comments of other
\* signs are nested alike.
RECURSIVE Nested(_, _, _, _, _)
Nested(l, slash, star, depth, afterStar) ==
    IF depth = 0 THEN {l}
    ELSE CASE Look(l) = EndOfText -> {}
           [] Look(l) = star -> Nested(Adv(l), slash, star, depth, TRUE)
           [] Look(l) = slash /\ afterStar -> Nested(Adv(l), slash, star, depth - 1, FALSE)
           [] Look(l) = slash /\ ~ afterStar ->
                 IF Look(Adv(l)) = star THEN Nested(Adv(Adv(l)), slash, star, depth + 1, FALSE)
                 ELSE Nested(Adv(l), slash, star, depth, FALSE)
           [] OTHER -> Nested(Adv(l), slash, star, depth, FALSE)
SlashStar(l) == IF Follows(l, "/*") THEN Nested(Along(l, "/*"), "/", "*", 1, FALSE) ELSE {}

\* The end of the text ends a comment, too.
NestedComment(l, symbol, valid) ==
    IF symbol \in valid /\ Follows(l, "/*")
    THEN EmitHere(IF SlashStar(l) = {} THEN Until(l, {}) ELSE CHOOSE e \in SlashStar(l) : TRUE,
                  symbol, NoState)
    ELSE Fail(NoState)
ScanWgsl(l, valid)     == NestedComment(l, "block_comment", valid)
ScanTablegen(l, valid) == NestedComment(l, "multiline_comment", valid)

RECURSIVE ParenStar(_, _, _)
ParenStar(l, depth, afterStar) ==
    IF depth = 0 \/ Look(l) = EndOfText THEN l
    ELSE CASE Look(l) = "*" -> ParenStar(Adv(l), depth, TRUE)
           [] Look(l) = ")" /\ afterStar -> ParenStar(Adv(l), depth - 1, FALSE)
           [] Look(l) = "(" /\ Look(Adv(l)) = "*" -> ParenStar(Adv(Adv(l)), depth + 1, FALSE)
           [] OTHER -> ParenStar(Adv(l), depth, FALSE)

ScanWolfram(l, valid) ==
    LET open == SkipWhile(l, Space)
        past == AlongRunes(open, <<"(", "*">>)
    IN  IF "comment" \in valid /\ Covers(open, past, 2)
        THEN EmitHere(ParenStar(past, 1, FALSE), "comment", NoState)
        ELSE Fail(NoState)
-----------------------------------------------------------------------------
(* Scanners of comments and of strings.  Their comments have to end, and   *)
(* may be made where none may come.                                        *)

MarkAll(ends) == {Mark(l) : l \in ends}

\* Behind a quote: past the quote with so many "#" behind it.
RECURSIVE HashEnd(_, _)
HashEnd(l, count) ==
    LET hashes == AtMost(Adv(l), {"#"}, count)
    IN  CASE Look(l) = EndOfText -> {}
          [] Look(l) = "\"" -> IF Covers(Adv(l), hashes, count) THEN {Mark(hashes)}
                               ELSE HashEnd(hashes, count)
          [] OTHER -> HashEnd(Adv(l), count)

\* Behind "r".
HashString(l) ==
    LET quote == While(l, {"#"})
    IN  IF Look(quote) = "\"" THEN HashEnd(Adv(quote), quote.at.pos - l.at.pos) ELSE {}

ScanKdl(l, valid) ==
    CASE "eof" \in valid /\ Look(l) = EndOfText -> Emit(Adv(l), "eof", NoState)
      [] "raw_string" \in valid /\ Look(l) = "r" -> EmitAt(HashString(Adv(l)), "raw_string")
      [] OTHER -> EmitAt(MarkAll(SlashStar(l)), "multi_line_comment")

\* A number with a fraction or an exponent, and perhaps a suffix with digits.
RonNumber == Digit \cup {"_"}
RonFloat(l) ==
    LET whole  == While(l, RonNumber)
        point  == Look(whole) = "."
        broken == point /\ Look(Adv(whole)) \in Letter \cup {"."}
        marked == Mark(IF point THEN While(Adv(whole), RonNumber) ELSE whole)
        signed == Opt(Adv(marked), {"+", "-"})
        power  == Look(marked) = "e"
        full   == IF power THEN Mark(While(signed, RonNumber)) ELSE marked
        suffix == While(Adv(full), Digit)
    IN  CASE broken -> {}
          [] ~ broken /\ power /\ Look(signed) \notin RonNumber -> {signed}
          [] ~ broken /\ ~ power /\ ~ point -> {}
          [] OTHER -> {IF Look(full) \in {"u", "i", "f"} /\ Went(Adv(full), suffix)
                       THEN Mark(suffix) ELSE full}

\* Content of a string has no marked end: it is made as an empty token.
ScanRon(l, valid) ==
    LET content == Until(l, {"\"", "\\"})
        begin   == SkipWhile(l, Space)
        r       == Opt(begin, {"b"})
    IN  CASE "string_content" \in valid /\ "float" \notin valid ->
               IF Look(content) # EndOfText /\ Went(l, content)
               THEN Emit(content, "string_content", NoState) ELSE Fail(NoState)
          [] "raw_string" \in valid /\ Look(begin) \in {"r", "b"}
             /\ ("string_content" \notin valid \/ "float" \in valid) ->
               EmitAt(IF Look(r) = "r" THEN HashString(Adv(r)) ELSE {}, "raw_string")
          [] "float" \in valid /\ Look(begin) \in Digit -> EmitAt(RonFloat(begin), "float")
          [] OTHER -> EmitAt(MarkAll(SlashStar(begin)), "block_comment")

\* "/+ ... +/": each sign is looked at with the one behind it.
RECURSIVE SlashPlus(_, _), DBracketed(_, _, _), DHere(_, _, _)
SlashPlus(l, depth) ==
    LET pair == <<Look(l), Look(Adv(l))>>
    IN  CASE depth = 0 -> {l}
          [] depth > 0 /\ pair = <<"/", "+">> -> SlashPlus(Adv(Adv(l)), depth + 1)
          [] depth > 0 /\ pair = <<"+", "/">> -> SlashPlus(Adv(Adv(l)), depth - 1)
          [] depth > 0 /\ pair[2] = EndOfText -> {}
          [] OTHER -> SlashPlus(Adv(l), depth)

\* From an opening bracket to the one that closes it.
ClosingOf == [r \in {"(", "[", "{", "<"} |->
    CASE r = "(" -> ")" [] r = "[" -> "]" [] r = "{" -> "}" [] r = "<" -> ">"]
DBracketed(l, open, depth) ==
    LET one == Adv(l)
    IN  CASE depth = 0 -> {l}
          [] depth > 0 /\ Look(one) = EndOfText -> {}
          [] OTHER -> DBracketed(one, open, depth + CASE Look(one) = open -> 1
                                       [] Look(one) = ClosingOf[open] -> -1 [] OTHER -> 0)

\* To a line that begins with the delimiter, but not at the very end.
DHere(l, delimiter, matched) ==
    CASE Look(l) = EndOfText -> {}
      [] matched = Len(delimiter) /\ Look(l) # EndOfText -> {l}
      [] OTHER -> DHere(Adv(l), delimiter,
                        CASE Look(l) = delimiter[matched + 1] -> matched + 1
                          [] Look(l) # delimiter[matched + 1] /\ Look(l) = delimiter[1] -> 1
                          [] OTHER -> 0)

DString(l) ==
    LET word == While(l, WordRune \ {"E"})
    IN  IF Look(l) \in DOMAIN ClosingOf
        THEN {Adv(Adv(e)) : e \in {x \in DBracketed(l, Look(l), 1) : Look(Adv(x)) = "\""}}
        ELSE IF Look(word) = "\n"
        THEN DHere(word, <<"\n">> \o Read(l, word) \o <<"\"">>, 0)
        ELSE {}

\* Neither token has a marked end.
ScanD(l, valid) ==
    IF Look(l) = "/" /\ "directive" \in valid
    THEN EmitAt(IF Look(Adv(l)) = "+" THEN SlashPlus(Adv(Adv(l)), 1) ELSE {}, "directive")
    ELSE EmitAt(IF "string" \in valid /\ Follows(l, "q\"") THEN DString(Along(l, "q\"")) ELSE {},
                "string")

\* Content of a string up to a quote, "$" or an escape, or the end of its line.
RECURSIVE DartContent(_, _, _, _)
DartContent(l, symbol, valid, some) ==
    LET line == valid \cap {"template_chars_double_single", "template_chars_single_single"} # {}
        raw  == "template_chars_raw_slash" \in valid
    IN  IF Look(l) \in {"'", "\"", "$"} \/ (Look(l) = "\\" /\ ~ raw)
        THEN IF some THEN EmitHere(l, symbol, NoState) ELSE Fail(NoState)
        ELSE IF Look(l) = EndOfText \/ (Look(l) = "\n" /\ line) THEN Fail(NoState)
        ELSE DartContent(Adv(l), IF Look(l) = "\\" THEN "template_chars_raw_slash" ELSE symbol,
                         valid, TRUE)

ScanDart(l, valid) ==
    LET contents == <<"template_chars_double", "template_chars_single",
                      "template_chars_single_single", "template_chars_double_single">>
        open     == SelectSeq(contents, LAMBDA s : s \in valid)
        begin    == SkipWhile(l, Space)
    IN  IF open # << >> THEN DartContent(l, Head(open), valid, FALSE)
        ELSE EmitAt(MarkAll(SlashStar(begin)),
                    IF Look(Adv(Adv(begin))) = "*" THEN "documentation_block_comment"
                    ELSE "block_comment")

\* Up to so many quotes, an escape or an interpolation; the quotes on their
\* own are the end.
RECURSIVE JuliaContent(_, _, _)
JuliaContent(l, string, some) ==
    LET here   == Mark(l)
        quotes == AtMost(here, {string.quote}, string.count)
        Stop   == IF some THEN Emit(here, string.symbol, NoState) ELSE Fail(NoState)
    IN  CASE Look(l) = EndOfText -> Fail(NoState)
          [] string.interpolates /\ Look(l) \in {"$", "\\"} -> Stop
          [] ~ string.interpolates /\ Look(l) = "\\" ->
               IF Look(Adv(l)) \in {string.quote, "\\"} THEN Stop
               ELSE JuliaContent(Adv(Adv(here)), string, TRUE)
          [] Covers(here, quotes, string.count) ->
               IF some THEN Stop ELSE EmitHere(quotes, string.end, NoState)
          [] OTHER -> JuliaContent(Adv(quotes), string, TRUE)

JuliaStrings ==
    LET Of(symbol, n, interpolates) ==
          [symbol |-> symbol, count |-> n, interpolates |-> interpolates,
           quote |-> IF SubSeq(symbol, 9, 9) = "s" THEN "\"" ELSE "BQ",
           end   |-> IF SubSeq(symbol, 9, 9) = "s" THEN "end_str" ELSE "end_cmd"]
    IN  << Of("content_str_1", 1, TRUE), Of("content_str_3", 3, TRUE),
           Of("content_cmd_1", 1, TRUE), Of("content_cmd_3", 3, TRUE),
           Of("content_str_1_raw", 1, FALSE), Of("content_str_3_raw", 3, FALSE),
           Of("content_cmd_1_raw", 1, FALSE), Of("content_cmd_3_raw", 3, FALSE) >>

\* What follows at once is an empty token.  A comment that does not end leaves
\* nothing for the content.
ScanJulia(l, valid) ==
    LET At(symbol, rune) == Try(symbol \in valid /\ Look(l) = rune, Emit(l, symbol, NoState))
        comment == "block_comment_rest" \in valid
        inside  == SelectSeq(JuliaStrings, LAMBDA s : s.symbol \in valid)
    IN  FirstOf(
          At("immediate_paren", "(") \o At("immediate_bracket", "[") \o At("immediate_brace", "{")
          \o At("immediate_string_start", "\"") \o At("immediate_command_start", "BQ")
          \o Try(comment, EmitAt(Nested(l, "#", "=", 1, FALSE), "block_comment_rest"))
          \o Try(inside # << >>, JuliaContent(l, Head(inside), FALSE)), NoState)
-----------------------------------------------------------------------------
Properties    == Port("properties", <<"eof">>, NoState)
Kconfig       == Port("kconfig", <<"text">>, NoState)
GodotResource == Port("godot_resource", <<"string">>, NoState)
Gn            == Port("gn", <<"string_content">>, NoState)
Squirrel      == Port("squirrel", <<"verbatim_string">>, NoState)
Jsdoc         == Port("jsdoc", <<"type", "code_block_line">>, NoState)
Yuck          == Port("yuck", <<"unescaped_single_quote_string_fragment",
                                "unescaped_double_quote_string_fragment",
                                "unescaped_backtick_string_fragment">>, NoState)
Racket        == Port("racket", <<"here_string_body">>, NoState)
Editorconfig  == Port("editorconfig", <<"end_of_file", "integer_range_start">>, NoState)
Gitcommit     == Port("gitcommit", <<"conventional_prefix", "trailer_value">>, NoState)
Janet         == Port("janet", <<"long_buf_lit", "long_str_lit">>, NoState)
Gleam         == Port("gleam", <<"quoted_content", "doc_comment_content">>, NoState)
Comment       == Port("comment", <<"name", "invalid_token">>, NoState)
-----------------------------------------------------------------------------
ScanProperties(l, valid) ==
    IF "eof" \in valid /\ Look(l) = EndOfText THEN EmitHere(Adv(l), "eof", NoState)
    ELSE Fail(NoState)

ScanKconfig(l, valid) ==
    LET line == Until(l, Breaks)
    IN  IF "text" \in valid /\ Went(l, line) THEN EmitHere(line, "text", NoState) ELSE Fail(NoState)

\* Behind the quote: past the quote that ends the string.
RECURSIVE PastString(_)
PastString(l) ==
    CASE Look(l) = EndOfText -> {}
      [] Look(l) = "\\" -> PastString(OptAny(Adv(l)))
      [] Look(l) = "\"" -> {Mark(Adv(l))}
      [] OTHER -> PastString(Adv(l))

ScanGodotResource(l, valid) ==
    EmitAt(IF "string" \in valid /\ Look(l) = "\"" THEN PastString(Adv(l)) ELSE {}, "string")

RECURSIVE PastVerbatim(_)
PastVerbatim(l) ==
    CASE Look(l) = EndOfText -> {}
      [] Look(l) = "\"" -> IF Look(Adv(l)) = "\"" THEN PastVerbatim(Adv(Adv(l)))
                           ELSE {Mark(Adv(l))}
      [] OTHER -> PastVerbatim(Adv(l))

ScanSquirrel(l, valid) ==
    EmitAt(IF "verbatim_string" \in valid /\ Follows(l, "@\"")
           THEN PastVerbatim(Along(l, "@\"")) ELSE {}, "verbatim_string")

\* Content up to a quote, an escape or "${"; with pairs, "$$" is content.
RECURSIVE Fragment(_, _, _, _)
Fragment(l, quote, pairs, some) ==
    CASE Look(l) \in {quote, "\\"} -> IF some THEN {Mark(l)} ELSE {}
      [] Look(l) = EndOfText -> {}
      [] Look(l) = "$" -> IF Look(Adv(l)) = "{" THEN IF some THEN {Mark(l)} ELSE {}
                          ELSE Fragment(IF pairs THEN Opt(Adv(l), {"$"}) ELSE Adv(l),
                                        quote, pairs, TRUE)
      [] OTHER -> Fragment(Adv(l), quote, pairs, TRUE)

ScanGn(l, valid) ==
    EmitAt(IF "string_content" \in valid THEN Fragment(l, "\"", TRUE, FALSE) ELSE {},
           "string_content")

ScanYuck(l, valid) ==
    LET Of(symbol, quote) == EmitAt(Fragment(l, quote, FALSE, FALSE), symbol)
    IN  CASE Yuck.externals[2] \in valid -> Of(Yuck.externals[2], "\"")
          [] Yuck.externals[1] \in valid /\ Yuck.externals[2] \notin valid ->
                Of(Yuck.externals[1], "'")
          [] valid \cap {Yuck.externals[1], Yuck.externals[2]} = {} /\ Yuck.externals[3] \in valid ->
                Of(Yuck.externals[3], "BQ")
          [] OTHER -> Fail(NoState)

RECURSIVE UnmatchedBrace(_, _)
UnmatchedBrace(l, depth) ==
    CASE Look(l) \in {EndOfText, "\n"} -> {}
      [] Look(l) = "}" /\ depth = 0 -> {Mark(l)}
      [] Look(l) = "}" /\ depth > 0 -> UnmatchedBrace(Adv(l), depth - 1)
      [] Look(l) = "{" -> UnmatchedBrace(Adv(l), depth + 1)
      [] OTHER -> UnmatchedBrace(Adv(l), depth)

ScanJsdoc(l, valid) ==
    EmitAt(IF "type" \in valid THEN UnmatchedBrace(l, 0) ELSE {}, "type")

\* Lines up to one that is the terminator.  Line ends are skipped and no end
\* is marked, so the token is the empty one before the last line.
RECURSIVE HereLines(_, _)
HereLines(l, terminator) ==
    LET line == Until(l, {"\n"})
    IN  IF Read(l, line) = terminator THEN {line}
        ELSE IF Look(line) = EndOfText THEN {} ELSE HereLines(Skip(line), terminator)

ScanRacket(l, valid) ==
    LET first == Until(l, {"\n"})
    IN  EmitAt(IF "here_string_body" \in valid /\ Look(first) = "\n"
               THEN HereLines(Skip(first), Read(l, first)) ELSE {}, "here_string_body")

\* A number with ".." behind it.
RangeStart(l) ==
    LET digits == While(Adv(l), Digit)
    IN  IF /\ (Look(l) \in Digit \/ (Look(l) = "-" /\ Look(Adv(l)) \in Digit))
           /\ Follows(digits, "..")
        THEN {Mark(digits)} ELSE {}

\* Both may come: the parser is recovering.
ScanEditorconfig(l, valid) ==
    LET atEnd == "end_of_file" \in valid
        start == "integer_range_start" \in valid
    IN  CASE atEnd /\ ~ start /\ Look(l) = EndOfText -> EmitHere(Adv(l), "end_of_file", NoState)
          [] start /\ ~ atEnd -> EmitAt(RangeStart(l), "integer_range_start")
          [] OTHER -> Fail(NoState)

\* A word and perhaps a scope, with a colon to follow.  The word may begin
\* with a parenthesis.
ScanGitcommit(l, valid) ==
    LET Ends  == Space \cup {":", "!"}
        word  == Until(Adv(l), Ends \cup {"(", ")"})
        scope == Until(Adv(word), (Space \ {" "}) \cup {"(", ")"})
        Scoped == Look(scope) = ")" /\ Went(Adv(word), scope)
        behind == IF Look(word) = "(" THEN Adv(scope) ELSE word
    IN  IF /\ "conventional_prefix" \in valid
           /\ Look(l) \notin Ends \cup AtEOF
           /\ Look(word) = "(" => Scoped
           /\ Look(Opt(behind, {"!"})) = ":"
        THEN Emit(Mark(word), "conventional_prefix", NoState) ELSE Fail(NoState)

\* As many backticks at the end as at the beginning.
RECURSIVE LongEnd(_, _, _)
LongEnd(l, count, seen) ==
    CASE Look(l) = EndOfText -> {}
      [] Look(l) = "BQ" /\ seen + 1 = count -> {Mark(Adv(l))}
      [] Look(l) = "BQ" /\ seen + 1 # count -> LongEnd(Adv(l), count, seen + 1)
      [] OTHER -> LongEnd(Adv(l), count, 0)

\* Which of the two is valid is not looked at again.
ScanJanet(l, valid) ==
    LET begin  == SkipWhile(l, Space)
        buffer == Look(begin) = "@"
        open   == Opt(begin, {"@"})
        ticks  == While(open, {"BQ"})
        count  == ticks.at.pos - open.at.pos
    IN  EmitAt(IF valid \cap {"long_buf_lit", "long_str_lit"} # {} /\ count > 0
                  /\ Look(ticks) # EndOfText
               THEN LongEnd(Adv(ticks), count, 0) ELSE {},
               IF buffer THEN "long_buf_lit" ELSE "long_str_lit")

ScanGleam(l, valid) ==
    LET content == Until(l, {"\"", "\\"})
        line    == Until(l, {"\n"})
    IN  CASE "quoted_content" \in valid ->
               IF Look(content) # EndOfText /\ Went(l, content)
               THEN EmitHere(content, "quoted_content", NoState) ELSE Fail(NoState)
          [] "quoted_content" \notin valid /\ "doc_comment_content" \in valid ->
               EmitHere(Opt(line, {"\n"}), "doc_comment_content", NoState)
          [] OTHER -> Fail(NoState)

\* Letters here are those of ASCII.
ScanComment(l, valid) ==
    LET word == While(l, (WordRune \ {"E"}) \cup {".", "-"})
    IN  IF "name" \in valid /\ Went(l, word) /\ Look(word) \in {":", "("}
        THEN EmitHere(word, "name", NoState) ELSE Fail(NoState)
=============================================================================
