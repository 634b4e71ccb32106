------------------------------- MODULE SignPorts -------------------------------
(***************************************************************************)
(* Scanners, without a state, of tokens that depend on what is around      *)
(* them: ends of statements, blanks that stand for an operator, signs that *)
(* touch the next word; and of JavaScript and its dialects, with the       *)
(* semicolons that line ends stand for.  Many of these tokens are empty.   *)
(***************************************************************************)
EXTENDS ScannerKit, TLC

Cooklang   == Port("cooklang", <<"newline">>, NoState)
Tcl        == Port("tcl", <<"concat", "immediate">>, NoState)
Powershell == Port("powershell", <<"statement_terminator">>, NoState)
Less       == Port("less", <<"descendant_operator">>, NoState)
Scss       == Port("scss", <<"descendant_operator", ":", "error_recovery", "concat">>, NoState)
Css        == Port("css", <<"descendant_operator", ":", "error_recovery">>, NoState)
Awk        == Port("awk", <<"concatenating_space", "if_else_separator", "no_space", "func_call">>, NoState)
Fish       == Port("fish", <<"concat", "bracket_concat", "concat_list", "begin_brace">>, NoState)
Fennel     == Port("fennel", <<"hashfn", "quote", "quasi_quote", "unquote", "reader_macro_count",
                               "colon_string_start_mark", "colon_string_end_mark", "shebang",
                               "error_sentinel">>, NoState)

ScanCooklang(l, valid) ==
    LET end == IF Look(l) = "\n" THEN Adv(l) ELSE Opt(Opt(l, {"\r"}), {"\n"})
    IN  IF "newline" \in valid /\ Went(l, end) THEN EmitHere(end, "newline", NoState)
        ELSE Fail(NoState)

\* Where an immediate token may come the scan only gives up.
ScanTcl(l, valid) ==
    IF /\ "concat" \in valid /\ "immediate" \notin valid
       /\ Look(l) \notin Space \cup {")", ":", "}", "]"}
    THEN Emit(l, "concat", NoState) ELSE Fail(NoState)

\* An empty token; blanks are skipped behind its marked end.
ScanPowershell(l, valid) ==
    LET end == SkipWhile(Mark(l), Space \ {"\n"})
    IN  IF "statement_terminator" \in valid /\ Look(end) \in {"}", ";", ")", "\n"} \cup AtEOF
        THEN Emit(end, "statement_terminator", NoState) ELSE Fail(NoState)

\* Behind a colon without a blank: whether a block opens before the end of
\* the declaration.
RECURSIVE BlockOpens(_)
BlockOpens(l) == CASE Look(l) \in {";", "}"} \cup AtEOF -> FALSE
                   [] Look(l) = "{" -> TRUE
                   [] OTHER -> BlockOpens(Adv(l))

\* Blanks between two selectors.
DescendantOp(l, starts, valid) ==
    LET next == SkipWhile(l, Space)
    IN  IF /\ "descendant_operator" \in valid /\ Went(l, next)
           /\ \/ Look(next) \in starts \cup Letter \cup Digit
              \/ Look(next) = ":" /\ Look(Adv(next)) \notin Space /\ BlockOpens(Adv(next))
        THEN EmitHere(next, "descendant_operator", NoState) ELSE Fail(NoState)
ScanLess(l, valid) == DescendantOp(l, {"#", ".", "[", "-", "&", "*"}, valid)
ScanScss(l, valid) == DescendantOp(l, {"#", ".", "[", "-", "&"}, valid)

\* Behind the colon of a selector: whether a block opens before the end of
\* the declaration, or the text ends.
RECURSIVE CssBlock(_, _)
CssBlock(l, comment) ==
    LET next == Adv(l)
        sign == IF comment THEN "*" ELSE "/"
        turns == Look(l) = sign /\ Look(next) = IF comment THEN "/" ELSE "*"
    IN  CASE Look(l) \in {";", "}"} \cup AtEOF -> Look(l) = EndOfText
          [] Look(l) = "{" /\ ~comment -> TRUE
          [] OTHER -> CssBlock(next, IF turns THEN ~comment ELSE comment)

ScanCss(l, valid) ==
    LET next    == SkipWhile(l, Space)
        blanks  == "descendant_operator" \in valid /\ Went(l, next)
        colon   == Adv(next)
    IN  FirstOf(
          Try("error_recovery" \in valid, Fail(NoState))
          \o Try(blanks /\ (Look(next) \in {"#", ".", "[", "-", "*", ":"} \cup Letter \cup Digit),
                 IF Look(next) = ":" /\ (Look(colon) \in Space \/ ~BlockOpens(colon)) THEN Fail(NoState)
                 ELSE EmitHere(next, "descendant_operator", NoState))
          \o Try(":" \in valid /\ Look(next) = ":" /\ Look(colon) # ":" /\ CssBlock(colon, FALSE),
                 EmitHere(colon, ":", NoState)), NoState)

\* Blanks, and lines that go on in the next one; runes: what else is skipped.
RECURSIVE AwkGap(_, _, _), AwkComment(_)
AwkGap(l, runes, skip) ==
    LET Past(at) == AwkGap(IF skip THEN Skip(at) ELSE Adv(at), runes, skip)
        sign == SkipOpt(Skip(l), {"\r"})
    IN  IF Look(l) \in Blanks \cup runes THEN Past(l)
        ELSE IF Look(l) # "\\" THEN l
        ELSE IF Look(sign) \in {"\n"} \cup runes THEN Past(sign) ELSE sign
AwkComment(l) ==
    LET next == AwkGap(Adv(SkipUntil(l, {"\n"})), Breaks, TRUE)
    IN  IF Look(l) # "#" THEN l ELSE AwkComment(next)

\* The space in front of an operand.
AwkConcatenation(l) ==
    LET end  == Mark(AwkGap(l, {"\r"}, FALSE))
        word == Skip(end)
    IN  CASE Look(end) \in {"^", "*", "/", "%", "+", "-", "<", ">", "=", "!", "~", "&", "|", ",", "?",
                            ":", ")", "[", "]", "{", "}", "#", ";", "\n"} \cup AtEOF -> {}
          [] Look(end) = "i" ->
               IF Look(word) \in {"n", "f"} THEN {x \in {Skip(word)} : Look(x) # " "}
               ELSE {x \in {word} : Look(x) # EndOfText}
          [] OTHER -> {end}

\* "else" is looked for behind the end of a statement; what was read for it
\* is not given back when the space is looked for.
ScanAwk(l, valid) ==
    LET gap    == AwkGap(l, {"\r"}, TRUE)
        end    == Mark(SkipWhile(gap, Blanks \cup Breaks \cup {";"}))
        word   == IF Look(end) = "#" THEN AwkGap(AwkComment(end), {"\r"}, TRUE) ELSE end
        after  == SkipAlong(word, "else")
        tried  == "if_else_separator" \in valid
        stops  == tried /\ Look(gap) \in {"\n", ";", "#"}
        spaces == AwkConcatenation(IF tried THEN after ELSE l)
    IN  FirstOf(
          Try("no_space" \in valid /\ Look(l) \notin Blanks, Emit(l, "no_space", NoState))
          \o Try("func_call" \in valid /\ Look(l) = "(", Emit(l, "func_call", NoState))
          \o Try(tried /\ Covers(word, after, 4), Emit(after, "if_else_separator", NoState))
          \o Try("concatenating_space" \in valid /\ ~stops, EmitAt(spaces, "concatenating_space")), NoState)

\* A brace that is no beginning of a block has been read when the other
\* tokens, which are empty, are looked for.
ScanFish(l, valid) ==
    LET begin == IF "begin_brace" \in valid THEN SkipWhile(l, Space) ELSE l
        next  == IF "begin_brace" \in valid THEN Opt(begin, {"{"}) ELSE begin
        r     == Look(next)
    IN  FirstOf(
          Try(Went(begin, next) /\ r \in Space \cup {";"}, EmitHere(next, "begin_brace", NoState))
          \o Try("concat_list" \in valid /\ r = "[", Emit(next, "concat_list", NoState))
          \o Try("concat" \in valid /\ r \notin Space \cup AtEOF \cup {">", "<", ")", ";", "&", "|"},
                 Emit(next, "concat", NoState))
          \o Try("bracket_concat" \in valid /\ r \notin Space \cup AtEOF \cup {")", "(", "}", ","},
                 Emit(next, "bracket_concat", NoState)), NoState)

Macro(r) == CASE r = "#" -> "hashfn" [] r = "'" -> "quote" [] r = "BQ" -> "quasi_quote"
              [] r = "," -> "unquote"

\* A reader macro touches what follows.  Where a shebang may come, a "#" has
\* been read before.
ScanFennel(l, valid) ==
    LET begin   == SkipWhile(l, Space)
        shebang == "shebang" \in valid
        line    == Until(Adv(Adv(begin)), {"\n"})
        macros  == "hashfn" \in valid /\ (Went(l, begin) \/ "colon_string_start_mark" \notin valid)
        one     == Adv(begin)
        Touches == Look(one) \notin Space \cup {")", "}", "]"} \cup AtEOF
    IN  IF "error_sentinel" \in valid THEN Fail(NoState)
        ELSE FirstOf(
          Try(shebang /\ Follows(begin, "#!"), EmitHere(line, "shebang", NoState))
          \o Try(macros /\ Look(begin) \in {"#", "'", "BQ", ","} /\ Touches,
                 EmitHere(one, Macro(Look(begin)), NoState)), NoState)
-----------------------------------------------------------------------------
Javascript == Port("javascript", <<"automatic_semicolon", "template_chars", "ternary_qmark",
                     "html_comment", "||", "escape_sequence", "regex_pattern", "jsx_text">>, NoState)
Typescript == Port("typescript", Javascript.externals
                     \o <<"function_signature_automatic_semicolon", "error_recovery">>, NoState)
Tsx        == Port("tsx", Typescript.externals, NoState)

\* Up to a backtick, an escape or "${".  A "$" alone is no content of its own.
RECURSIVE TemplateChars(_, _)
TemplateChars(l, some) ==
    LET Stop == IF some THEN EmitHere(l, "template_chars", NoState) ELSE Fail(NoState)
    IN  CASE Look(l) = EndOfText -> Fail(NoState)
          [] Look(l) \in {"BQ", "\\"} -> Stop
          [] Look(l) = "$" -> IF Look(Adv(l)) = "{" THEN Stop ELSE TemplateChars(Adv(l), some)
          [] OTHER -> TemplateChars(Adv(l), TRUE)

\* Blanks behind a line break, up to something on the same line, are no text.
JsxText(l) ==
    LET end  == Until(l, {"<", ">", "{", "}", "&"})
        runes == Read(l, end)
        Blank(i) == \E j \in 1 .. i : runes[j] = "\n" /\ \A k \in j .. i : runes[k] \in Space
    IN  IF \E i \in DOMAIN runes : ~ Blank(i) THEN {end} ELSE {}

\* Past blanks and comments: whether all of it is read, and whether a comment
\* of one line was among it.  A "/" on its own is not put back.
RECURSIVE SkipBlock(_), SkipLayout(_, _)
SkipBlock(l) ==
    CASE Look(l) = EndOfText -> l
      [] Look(l) = "*" -> IF Look(Skip(l)) = "/" THEN Skip(Skip(l)) ELSE SkipBlock(Skip(l))
      [] OTHER -> SkipBlock(Skip(l))
SkipLayout(l, commented) ==
    LET next == SkipWhile(l, Space)
        one  == Skip(next)
    IN  IF Look(next) # "/" THEN [ok |-> TRUE, past |-> next, commented |-> commented]
        ELSE CASE Look(one) = "/" -> SkipLayout(SkipUntil(one, {"\n"}), TRUE)
               [] Look(one) = "*" -> SkipLayout(SkipBlock(Skip(one)), commented)
               [] OTHER -> [ok |-> FALSE, past |-> one, commented |-> commented]

\* Whether a statement ends in front of what follows a line break, and how far
\* that was read.
Begins(l, valid) ==
    LET one  == Skip(l)
        two  == Skip(one)
        word == SkipAlong(two, "stanceof")
        Make(makes, past) == [makes |-> makes, past |-> past]
    IN  CASE Look(l) \in {"BQ", ",", ".", ";", "*", "%", ">", "<", "=", "?", "^", "|", "&", "/", ":"} ->
               Make(FALSE, l)
          [] Look(l) = "{" -> Make("function_signature_automatic_semicolon" \notin valid, l)
          [] Look(l) \in {"(", "["} -> Make("||" \notin valid, l)
          [] Look(l) \in {"+", "-"} -> Make(Look(one) = Look(l), one)
          [] Look(l) = "!" -> Make(Look(one) # "=", one)
          [] Look(l) = "i" ->
               IF Look(one) # "n" THEN Make(TRUE, one)
               ELSE IF Look(two) \notin Letter THEN Make(FALSE, two)
               ELSE Make(~ Covers(two, word, 8) \/ Look(word) \in Letter, word)
          [] OTHER -> Make(TRUE, l)

\* A semicolon where a line, a block or the text ends.  All that is read is
\* skipped, so that the token lies behind it: behind the "}", too.
AutoSemicolon(l, valid) ==
    LET end   == SkipWhile(Mark(l), Space \ {"\n"})
        brace == SkipWhile(Skip(end), Space)
        line  == SkipLayout(Skip(end), FALSE)
        Make(makes, past) == [makes |-> makes, past |-> past, commented |-> FALSE]
    IN  CASE Look(end) = EndOfText -> Make(TRUE, end)
          [] Look(end) = "}" -> Make(Look(brace) = ":" => "||" \in valid, brace)
          [] Look(end) = "\n" ->
               IF ~ line.ok THEN [makes |-> FALSE, past |-> line.past, commented |-> line.commented]
               ELSE Begins(line.past, valid) @@ [commented |-> line.commented]
          [] OTHER -> Make(FALSE, end)

\* "?" that is no part of "??" or "?." and stands for no missing operand.
TernaryQmark(l) ==
    LET begin == SkipWhile(l, Space)
        one   == Adv(begin)
        next  == While(Mark(one), Space)
    IN  IF /\ Look(begin) = "?" /\ Look(one) \notin {"?", "."}
           /\ Look(next) \notin {":", ")", ","}
           /\ Look(next) = "." => Look(Adv(next)) \in Digit
        THEN {next} ELSE {}

HtmlComment(l) ==
    LET begin == SkipWhile(l, Space)
    IN  IF Follows(begin, "<!--") \/ Follows(begin, "-->") THEN {Mark(Until(begin, {"\n"}))} ELSE {}

ScanScript(l, valid) ==
    LET jsx  == IF "jsx_text" \in valid THEN JsxText(l) ELSE {}
        next == IF "jsx_text" \in valid THEN Until(l, {"<", ">", "{", "}", "&"}) ELSE l
        semi == AutoSemicolon(next, valid)
    IN  CASE "template_chars" \in valid ->
               IF "automatic_semicolon" \in valid THEN Fail(NoState) ELSE TemplateChars(l, FALSE)
          [] "template_chars" \notin valid /\ jsx # {} -> EmitAt(jsx, "jsx_text")
          [] /\ "template_chars" \notin valid /\ jsx = {}
             /\ valid \cap {"automatic_semicolon", "function_signature_automatic_semicolon"} # {} ->
               IF semi.makes THEN Emit(semi.past, "automatic_semicolon", NoState)
               ELSE EmitAt(IF ~ semi.commented /\ "ternary_qmark" \in valid /\ Look(semi.past) = "?"
                           THEN TernaryQmark(semi.past) ELSE {}, "ternary_qmark")
          [] OTHER ->
               IF "ternary_qmark" \in valid THEN EmitAt(TernaryQmark(next), "ternary_qmark")
               ELSE EmitAt(IF /\ "html_comment" \in valid
                              /\ valid \cap {"||", "escape_sequence", "regex_pattern"} = {}
                           THEN HtmlComment(next) ELSE {}, "html_comment")

\* The dialects have symbols of their own to look for.
ScanJavascript(l, valid) == ScanScript(l, valid)
ScanTypescript(l, valid) == ScanScript(l, valid)
ScanTsx(l, valid)        == ScanScript(l, valid)
=============================================================================
