------------------------------ MODULE LiteralPorts ------------------------------
(***************************************************************************)
(* Scanners of literals that count: the "=" of a long bracket, the "#"     *)
(* behind a quote, the "%" in front of one; of literals in literals: the   *)
(* templates of HCL, the interpolated strings of C#; and of Odin's numbers *)
(* and what else may come where one has come to nothing.                   *)
(***************************************************************************)
EXTENDS ScannerKit

Teal   == Port("teal", <<"comment", "long_string_start", "long_string_char", "long_string_end",
                         "short_string_start", "short_string_char", "short_string_end">>,
               [eqs |-> 0, inStr |-> FALSE, quote |-> EndOfText])
Pkl    == Port("pkl", <<"sl_string_chars", "sl1_string_chars", "sl2_string_chars", "sl3_string_chars",
                        "sl4_string_chars", "sl5_string_chars", "sl6_string_chars", "ml_string_chars",
                        "ml1_string_chars", "ml2_string_chars", "ml3_string_chars", "ml4_string_chars",
                        "ml5_string_chars", "ml6_string_chars",
                        "open_subscript_bracket", "open_argument_paren", "binary_minus">>, NoState)
Nickel == Port("nickel", <<"multstr_start", "multstr_end", "str_start", "str_end", "interpolation_start",
                           "interpolation_end", "quoted_enum_tag_start", "comment">>, << >>)
-----------------------------------------------------------------------------
(* Teal: strings that the state is in, and comments that it is not.  A     *)
(* bracket behind the wrong number of "=" is read with them, so that it    *)
(* cannot begin the end of the comment.                                    *)

RECURSIVE TealBlock(_, _)
TealBlock(l, level) ==
    LET sign == Until(l, {"]"})
        eqs  == While(Adv(sign), {"="})
    IN  CASE Look(sign) = EndOfText -> sign
          [] Look(sign) # EndOfText /\ Look(eqs) # "]" -> TealBlock(OptAny(eqs), level)
          [] OTHER -> IF Covers(Adv(sign), eqs, level) THEN Adv(eqs) ELSE TealBlock(Adv(eqs), level)

TealComment(l, s) ==
    LET begin == Along(l, "--")
        eqs   == While(Adv(begin), {"="})
    IN  IF ~Follows(l, "--") THEN Fail(s)
        ELSE IF Look(begin) # "[" THEN Emit(Until(begin, Breaks), "comment", s)
        ELSE IF Look(eqs) # "[" THEN Emit(Until(eqs, Breaks), "comment", s)
        ELSE Emit(TealBlock(Adv(eqs), Level(Adv(begin), eqs)), "comment", s)

TealShort(l, s, valid) ==
    CASE Look(l) = s.quote /\ "short_string_end" \in valid -> Emit(Adv(l), "short_string_end", Teal.created)
      [] /\ Look(l) \notin {s.quote, "\n", "\r", "\\", "%"}
         /\ "short_string_char" \in valid -> Emit(Adv(l), "short_string_char", s)
      [] OTHER -> Fail(s)

\* Here it does not matter what may come.
TealLong(l, s) ==
    LET eqs  == While(Adv(l), {"="})
        sign == IF Look(l) = "]" THEN eqs ELSE l
    IN  IF Look(l) = "]" /\ Covers(Adv(l), eqs, s.eqs) /\ Look(eqs) = "]"
        THEN Emit(Adv(eqs), "long_string_end", Teal.created)
        ELSE IF Look(sign) = "%" THEN Fail(s)
        ELSE Emit(OptAny(sign), "long_string_char", s)

TealLongStart(l) ==
    LET eqs == While(Adv(l), {"="})
    IN  IF Look(eqs) # "[" THEN Fail(Teal.created)
        ELSE Emit(Adv(eqs), "long_string_start", [Teal.created EXCEPT !.inStr = TRUE, !.eqs = Level(Adv(l), eqs)])

ScanTeal(l, s, valid) ==
    LET begin == SkipWhile(l, Blanks \cup Breaks)
    IN  IF Look(l) = EndOfText THEN Fail(s)
        ELSE IF s.inStr THEN IF s.quote # EndOfText THEN TealShort(l, s, valid) ELSE TealLong(l, s)
        ELSE IF "short_string_start" \in valid /\ Look(begin) \in {"\"", "'"}
        THEN Emit(Adv(begin), "short_string_start", [s EXCEPT !.inStr = TRUE, !.quote = Look(begin)])
        ELSE IF "long_string_start" \in valid /\ Look(begin) = "[" THEN TealLongStart(begin)
        ELSE IF "comment" \in valid THEN TealComment(begin, s)
        ELSE Fail(s)
-----------------------------------------------------------------------------
(* Pkl: a quote or a backslash behind which there are as many "#" as the   *)
(* string began with ends the content, of many lines only three quotes do. *)
(* The end of a string of one line without "#" is marked nowhere.          *)

RECURSIVE PklContent(_, _, _, _)
PklContent(l, many, pounds, some) ==
    LET here   == IF many \/ pounds > 0 THEN Mark(l) ELSE l
        quotes == many /\ Look(l) = "\""
        run    == IF pounds = 0 THEN AtMost(here, {"\""}, 2) ELSE While(here, {"\""})
        long   == IF pounds = 0 THEN Covers(here, run, 2) /\ Look(run) = "\"" ELSE Level(here, run) >= 3
        sign   == IF quotes THEN run ELSE Adv(here)
        hashes == AtMost(sign, {"#"}, pounds)
    IN  CASE Look(l) \in AtEOF \cup (IF many THEN {} ELSE Breaks) -> IF some THEN {here} ELSE {}
          [] Look(l) \in {"\"", "\\"} ->
               IF (quotes => long) /\ Covers(sign, hashes, pounds) THEN IF some THEN {here} ELSE {}
               ELSE PklContent(IF quotes /\ ~long THEN run ELSE hashes, many, pounds, TRUE)
          [] OTHER -> PklContent(Adv(l), many, pounds, TRUE)

\* The kinds of strings, in the order they are looked for.
PklKind(i) == [symbol |-> Pkl.externals[i], many |-> i > 7, pounds |-> (i - 1) % 7]
PklKinds   == [n \in 1 .. 14 |-> PklKind(<<1, 8, 2, 3, 4, 5, 6, 7, 9, 10, 11, 12, 13, 14>>[n])]

PklOperator(l, valid) ==
    LET begin == SkipWhile(l, Blanks \cup {"\r", "\f"})
        past  == Adv(begin)
    IN  CASE Look(begin) = "[" /\ "open_subscript_bracket" \in valid -> Emit(past, "open_subscript_bracket", NoState)
          [] Look(begin) = "(" /\ "open_argument_paren" \in valid -> Emit(past, "open_argument_paren", NoState)
          [] Look(begin) = "-" /\ "binary_minus" \in valid /\ Look(past) # ">" -> EmitHere(past, "binary_minus", NoState)
          [] OTHER -> Fail(NoState)

ScanPkl(l, valid) ==
    LET asked == SelectSeq(PklKinds, LAMBDA kind : kind.symbol \in valid)
    IN  IF valid = SymbolsIn(Pkl) THEN Fail(NoState)
        ELSE IF asked = << >> THEN PklOperator(l, valid)
        ELSE EmitAt(PklContent(l, asked[1].many, asked[1].pounds, FALSE), asked[1].symbol)
-----------------------------------------------------------------------------
(* Nickel: how many "%" begin an interpolation, for each open string.  A   *)
(* beginning that comes to nothing leaves its number on the stack, and an  *)
(* end that comes to nothing takes one off.                                *)

\* Past the "%" of a prefix such as "tag-s%", in a set of at most one.
RECURSIVE NickelTag(_, _)
NickelTag(l, part) ==
    LET rune == Look(l)
    IN  CASE rune = EndOfText                -> {}
          [] part = "percent"                -> {l}
          [] part = "start"                  -> IF rune \in AsciiLetter THEN NickelTag(Adv(l), "middle") ELSE {}
          [] part = "dash" /\ rune = "s"     -> NickelTag(Adv(l), "s")
          [] part = "s" /\ rune = "%"        -> NickelTag(Adv(l), "percent")
          [] OTHER -> IF rune \notin AsciiLetter \cup Digit \cup {"-", "'", "_"} THEN {}
                      ELSE NickelTag(Adv(l), IF rune = "-" THEN "dash" ELSE "middle")

NickelMultstrStart(l, s) ==
    LET m     == Opt(l, {"m"})
        begin == IF Went(l, m) /\ Look(m) = "%" THEN {Adv(m)}
                 ELSE NickelTag(m, IF Went(l, m) THEN "middle" ELSE "start")
        first == CHOOSE b \in begin : TRUE
        signs == While(first, {"%"})
        kept  == Append(s, Byte(1 + Level(first, signs)))
    IN  IF begin = {} THEN Fail(s)
        ELSE IF Look(signs) = "\"" THEN Emit(Adv(signs), "multstr_start", kept)
        ELSE Fail(kept)

NickelMultstrEnd(l, s) ==
    LET signs == AtMost(l, {"%"}, TopOf(s))
    IN  IF s = << >> THEN Fail(s)
        ELSE IF Covers(l, signs, TopOf(s)) /\ Look(signs) # "{" THEN Emit(signs, "multstr_end", Front(s))
        ELSE Fail(Front(s))

\* More "%" than asked for take the number below 0, and around.
NickelInterpStart(l, s) ==
    LET signs == While(l, {"%"})
    IN  IF s # << >> /\ TopOf(s) # 0 /\ Look(signs) = "{" /\ Byte(TopOf(s) - Level(l, signs)) = 0
        THEN Emit(Adv(signs), "interpolation_start", s) ELSE Fail(s)

ScanNickel(l, s, valid) ==
    LET begin == SkipWhile(l, Space)
        past  == Adv(begin)
        rune  == Look(begin)
    IN  IF valid = SymbolsIn(Nickel) THEN Fail(s) ELSE
        CASE rune = "\"" ->
               IF "multstr_end" \in valid
               THEN IF Look(past) = "%" THEN NickelMultstrEnd(past, s) ELSE Fail(s)
               ELSE IF "str_start" \in valid THEN Emit(past, "str_start", Append(s, 1))
               ELSE IF "str_end" \in valid THEN Emit(past, "str_end", IF s = << >> THEN s ELSE Front(s))
               ELSE Fail(s)
          [] rune = "%" ->
               IF "interpolation_start" \in valid THEN NickelInterpStart(begin, s) ELSE Fail(s)
          [] rune = "}" ->
               IF "interpolation_end" \in valid THEN Emit(past, "interpolation_end", s) ELSE Fail(s)
          [] rune = "'" ->
               IF "quoted_enum_tag_start" \in valid /\ Look(past) = "\""
               THEN Emit(Adv(past), "quoted_enum_tag_start", Append(s, 0)) ELSE Fail(s)
          [] rune = "#" ->
               IF "comment" \in valid /\ s = << >> THEN Emit(Until(past, {"\n"}), "comment", s) ELSE Fail(s)
          [] OTHER -> IF "multstr_start" \in valid THEN NickelMultstrStart(begin, s) ELSE Fail(s)
-----------------------------------------------------------------------------
Hcl    == Port("hcl", <<"quoted_template_start", "quoted_template_end", "template_literal_chunk",
                        "template_interpolation_start", "template_interpolation_end",
                        "template_directive_start", "template_directive_end", "heredoc_identifier">>, << >>)
Csharp == Port("csharp", <<"opt_semi", "interp_regular_start", "interp_verbatim_start", "interp_raw_start",
                           "interp_start_quote", "interp_end_quote", "interp_open_brace", "interp_close_brace",
                           "interp_string_content", "raw_string_start", "raw_string_end",
                           "raw_string_content">>, [quotes |-> 0, stack |-> << >>])
Odin   == Port("odin", <<"newline", "backslash", "nl_comma", "float", "block_comment", "bracket", "quote">>,
               NoState)
-----------------------------------------------------------------------------
(* HCL: contexts, of which only the top one counts.  Most tokens are       *)
(* marked nowhere.                                                         *)

Context(kind)   == [kind |-> kind, name |-> << >>]
Within(s, kind) == s # << >> /\ TopOf(s).kind = kind

\* A sign and a brace open a context; two signs are text, as is one alone.
HclOpen(l, s, sign, kind, symbol) ==
    LET past == Adv(l)
    IN  IF Look(past) = "{" THEN Emit(Adv(past), symbol, Append(s, Context(kind)))
        ELSE Emit(AlongRunes(past, <<sign, "{">>), "template_literal_chunk", s)

\* The end of a heredoc has a line of its own, and is text otherwise.
HclHeredocEnd(l, s) ==
    LET name == AlongRunes(l, TopOf(s).name)
        past == While(Mark(name), Space \ {"\n"})
    IN  IF ~Covers(l, name, Len(TopOf(s).name)) THEN Emit(name, "template_literal_chunk", s)
        ELSE IF Look(past) = "\n" THEN Emit(past, "heredoc_identifier", Front(s))
        ELSE EmitHere(Adv(past), "template_literal_chunk", s)

HclHexDigit == Digit \cup {"a", "b", "c", "d", "e", "f", "A", "B", "C", "D", "F"}
HclEscape(l, s) ==
    LET count  == CASE Look(l) = "u" -> 4 [] Look(l) = "U" -> 8 [] OTHER -> 0
        digits == AtMost(Adv(l), HclHexDigit, count)
    IN  IF Look(l) \in {"\"", "n", "r", "t", "\\"} \/ (count > 0 /\ Covers(Adv(l), digits, count))
        THEN Emit(digits, "template_literal_chunk", s) ELSE Fail(s)

\* A name's runes are kept as bytes, which a letter outside ASCII is not.
HclName(runes) == [i \in DOMAIN runes |-> IF runes[i] = "E" THEN "E1" ELSE runes[i]]
HclHeredocStart(l, s) ==
    LET end == While(l, WordRune \cup {"-"})
    IN  Emit(end, "heredoc_identifier", Append(s, [kind |-> "heredoc", name |-> HclName(Read(l, end))]))

ScanHcl(l, s, valid) ==
    LET begin   == SkipWhile(l, Space)
        newline == \E i \in DOMAIN Read(l, begin) : Read(l, begin)[i] = "\n"
        past    == Adv(begin)
        rune    == Look(begin)
        chunk   == "template_literal_chunk" \in valid
        Closes(symbol, kind, sign) == symbol \in valid /\ Within(s, kind) /\ rune = sign
        Opens(symbol, kind, sign)  == symbol \in valid /\ ~Within(s, kind) /\ rune = sign
    IN  FirstOf(
        Try(rune = EndOfText, Fail(s))
        \o Try(Opens("quoted_template_start", "quoted", "\""),
               Emit(past, "quoted_template_start", Append(s, Context("quoted"))))
        \o Try(Closes("quoted_template_end", "quoted", "\""), Emit(past, "quoted_template_end", Front(s)))
        \o Try(chunk /\ Opens("template_interpolation_start", "interpolation", "$"),
               HclOpen(begin, s, "$", "interpolation", "template_interpolation_start"))
        \o Try(Closes("template_interpolation_end", "interpolation", "}"),
               Emit(past, "template_interpolation_end", Front(s)))
        \o Try(chunk /\ Opens("template_directive_start", "directive", "%"),
               HclOpen(begin, s, "%", "directive", "template_directive_start"))
        \o Try(Closes("template_directive_end", "directive", "}"),
               Emit(past, "template_directive_end", Front(s)))
        \o Try("heredoc_identifier" \in valid /\ ~Within(s, "heredoc"), HclHeredocStart(begin, s))
        \o Try("heredoc_identifier" \in valid /\ Within(s, "heredoc") /\ newline,
               HclHeredocEnd(begin, s))
        \o Try(chunk /\ Within(s, "quoted") /\ rune = "\\", HclEscape(past, s))
        \o Try(chunk /\ (Within(s, "quoted") \/ Within(s, "heredoc")),
               Emit(past, "template_literal_chunk", s)), s)
-----------------------------------------------------------------------------
(* C#: the interpolated strings that are open, each with the number of its *)
(* "$", of the braces of its open hole and of its quotes; each number in a *)
(* byte.  What has been tried in vain has been read all the same: the      *)
(* quotes (quoted) and whether it was any count for what comes next.       *)

\* One string more, and the top one changed.
Interpolated(s, dollars, kind) ==
    [s EXCEPT !.stack = Append(@, [dollars |-> Byte(dollars), braces |-> 0, quotes |-> 0, kind |-> kind])]
Cur(s)            == TopOf(s.stack)
WithCur(s, cur)   == [s EXCEPT !.stack = Append(Front(@), cur)]
Asked(s, valid, symbol) == symbol \in valid /\ s.stack # << >>
QuoteRun(l)         == While(l, {"\""})

\* The content of a string: where it ends, and whether there is any.
RECURSIVE CsText(_, _, _)
CsText(l, cur, some) ==
    LET quote  == Look(l) = "\""
        past   == IF cur.kind = "raw" THEN QuoteRun(l) ELSE l
        braces == AtMost(past, {"{"}, cur.braces)
        ended  == CASE cur.kind = "raw"      -> Level(l, past) > 1 /\ Byte(Level(l, past)) = cur.quotes
                    [] cur.kind = "verbatim" -> quote /\ Look(Adv(l)) # "\""
                    [] cur.kind = "regular"  -> Look(l) \in {"\\", "\n", "\""}
        opened == /\ Look(past) = "{" /\ Covers(past, braces, cur.braces)
                  /\ cur.braces = 0 \/ Look(braces) # "{"
    IN  IF Look(l) = EndOfText \/ ended THEN [lexer |-> Mark(l), some |-> some]
        ELSE IF cur.kind = "verbatim" /\ quote THEN CsText(Ahead(l, 2), cur, some)
        ELSE IF opened THEN [lexer |-> Mark(past), some |-> some]
        ELSE CsText(Adv(braces), cur, TRUE)

CsContent(l, s, valid, some) ==
    LET text == CsText(l, Cur(s), some)
    IN  IF Asked(s, valid, "interp_string_content") /\ text.some
        THEN Emit(text.lexer, "interp_string_content", s) ELSE Fail(s)

\* A hole without braces ends where a byte has counted around to 0.
CsCloseBrace(l, s, valid, some) ==
    LET begin  == While(l, Space)
        count  == IF Cur(s).braces = 0 THEN ByteSize ELSE Cur(s).braces
        braces == AtMost(begin, {"}"}, count)
    IN  IF ~Asked(s, valid, "interp_close_brace") THEN CsContent(l, s, valid, some)
        ELSE IF Covers(begin, braces, count)
        THEN Emit(braces, "interp_close_brace", WithCur(s, [Cur(s) EXCEPT !.braces = 0]))
        ELSE Fail(s)

CsOpenBrace(l, s, valid, some) ==
    LET braces == AtMost(l, {"{"}, Cur(s).dollars)
        count  == Level(l, braces)
    IN  IF ~Asked(s, valid, "interp_open_brace") THEN CsCloseBrace(l, s, valid, some)
        ELSE IF count > 0 /\ count = Cur(s).dollars /\ Look(braces) # "{"
        THEN Emit(braces, "interp_open_brace", WithCur(s, [Cur(s) EXCEPT !.braces = count]))
        ELSE CsCloseBrace(braces, s, valid, some)

CsEndQuote(l, s, valid, quoted, some) ==
    LET count == Byte(quoted + Level(l, QuoteRun(l)))
    IN  IF ~Asked(s, valid, "interp_end_quote") THEN CsOpenBrace(l, s, valid, some)
        ELSE IF count = Cur(s).quotes
        THEN Emit(QuoteRun(l), "interp_end_quote", [s EXCEPT !.stack = Front(@)])
        ELSE CsOpenBrace(QuoteRun(l), s, valid, count > 0)

\* The quotes that a string begins with, added to those it has had.
CsStartQuote(l, s, valid, quoted, some) ==
    LET end   == IF Cur(s).kind = "raw" THEN QuoteRun(l) ELSE Opt(l, {"\""})
        count == Byte(Cur(s).quotes + Level(l, end))
        kept  == WithCur(s, [Cur(s) EXCEPT !.quotes = count])
    IN  IF ~Asked(s, valid, "interp_start_quote") THEN CsEndQuote(l, s, valid, quoted, some)
        ELSE IF count > 0 THEN Emit(end, "interp_start_quote", kept) ELSE Fail(kept)

\* What stands in front of the quotes of a string: two quotes are an empty one.
CsStart(l, s, valid, quoted, some) ==
    LET begin   == SkipWhile(l, Space)
        at      == Opt(begin, {"@"})
        signs   == IF quoted = 0 THEN While(at, {"$"}) ELSE at
        dollars == Byte(Level(at, signs))
        end     == Mark(Opt(signs, {"@"}))
        regular == Look(Adv(end)) # "\""
        raw     == Look(Ahead(end, 2)) = "\""
    IN  IF valid \cap {"interp_regular_start", "interp_verbatim_start", "interp_raw_start"} = {}
        THEN CsStartQuote(l, s, valid, quoted, some)
        ELSE IF dollars = 0 \/ Look(signs) \notin {"\"", "@"} THEN CsStartQuote(signs, s, valid, quoted, some)
        ELSE IF Went(begin, at) \/ Went(signs, end)
        THEN Emit(end, "interp_verbatim_start", Interpolated(s, dollars, "verbatim"))
        ELSE IF ~regular /\ raw THEN Emit(end, "interp_raw_start", Interpolated(s, dollars, "raw"))
        ELSE Emit(end, "interp_regular_start", IF regular THEN Interpolated(s, dollars, "regular") ELSE s)

RECURSIVE CsRaw(_, _)
CsRaw(l, count) ==
    IF Look(l) = EndOfText THEN Mark(l)
    ELSE IF Look(l) = "\"" /\ Byte(Level(l, QuoteRun(l))) = count THEN Mark(l)
    ELSE CsRaw(Adv(QuoteRun(l)), count)

CsRawContent(l, s, valid, quoted, some) ==
    IF "raw_string_content" \in valid THEN Emit(CsRaw(l, s.quotes), "raw_string_content", s)
    ELSE CsStart(l, s, valid, quoted, some)

CsRawEnd(l, s, valid, quoted) ==
    LET count == Byte(quoted + Level(l, QuoteRun(l)))
    IN  IF "raw_string_end" \notin valid \/ Look(l) # "\"" THEN CsRawContent(l, s, valid, quoted, FALSE)
        ELSE IF count = s.quotes THEN Emit(QuoteRun(l), "raw_string_end", [s EXCEPT !.quotes = 0])
        ELSE CsRawContent(QuoteRun(l), s, valid, count, count > 0)

CsRawStart(l, s, valid) ==
    LET begin == SkipWhile(l, Space)
        count == Byte(Level(begin, QuoteRun(begin)))
    IN  IF "raw_string_start" \notin valid THEN CsRawEnd(l, s, valid, 0)
        ELSE IF count >= 3 THEN Emit(QuoteRun(begin), "raw_string_start", [s EXCEPT !.quotes = count])
        ELSE CsRawEnd(QuoteRun(begin), s, valid, count)

ScanCsharp(l, s, valid) ==
    IF {"opt_semi", "interp_regular_start"} \subseteq valid THEN Fail(s)
    ELSE IF "opt_semi" \in valid THEN Emit(Opt(l, {";"}), "opt_semi", s)
    ELSE CsRawStart(l, s, valid)
-----------------------------------------------------------------------------
(* Odin: a number, a comma at the end of a line, the end of a line, a line *)
(* that goes on, a comment that may hold others.  Where a number comes to  *)
(* nothing the search goes on behind what it has read.                     *)

RECURSIVE OdinComment(_, _, _)
OdinComment(l, starred, depth) ==
    LET rune == Look(l)
    IN  CASE depth = 0 -> Emit(l, "block_comment", NoState)
          [] depth > 0 /\ rune = EndOfText -> Fail(NoState)
          [] depth > 0 /\ rune # EndOfText ->
               IF rune = "/" /\ starred THEN OdinComment(Adv(l), FALSE, depth - 1)
               ELSE IF Follows(l, "/*") THEN OdinComment(Ahead(l, 2), FALSE, depth + 1)
               ELSE OdinComment(Adv(l), rune = "*", depth)

OdinRest(l, valid) ==
    LET line  == Adv(l)
        split == "backslash" \in valid /\ Look(l) = "\\"
        begin == SkipWhile(IF split THEN line ELSE l, Space)
    IN  IF split /\ Look(line) = "\n" THEN Emit(While(Adv(line), Space), "backslash", NoState)
        ELSE IF "block_comment" \in valid /\ Follows(begin, "/*") /\ Look(Ahead(begin, 2)) # "\""
        THEN OdinComment(Ahead(begin, 2), FALSE, 1)
        ELSE Fail(NoState)

\* The line after, blanks skipped, may begin with a word that takes this one on.
OdinNewline(l, valid) ==
    LET begin == SkipWhile(l, Space \ {"\n"})
        line  == Mark(Adv(begin))
        next  == SkipWhile(line, Space)
        Begins(word) == Follows(next, word) /\ Look(Along(next, word)) \in Space
        words == {word \in {"where", "else"} : Begins(word)}
        empty == \E i \in DOMAIN Read(line, next) : Read(line, next)[i] = "\n"
    IN  IF "newline" \notin valid THEN OdinRest(l, valid)
        ELSE IF Look(begin) # "\n" THEN OdinRest(begin, valid)
        ELSE IF words # {} THEN OdinRest(Along(next, CHOOSE word \in words : TRUE), valid)
        ELSE IF Begins("{") /\ ~empty /\ "bracket" \in valid THEN Fail(NoState)
        ELSE Emit(next, "newline", NoState)

OdinComma(l, valid) ==
    LET begin == SkipWhile(l, Space \ {"\n"})
        comma == Mark(Adv(begin))
        past  == While(comma, Space \ {"\n"})
    IN  IF "nl_comma" \notin valid THEN OdinNewline(l, valid)
        ELSE IF Look(begin) # "," THEN OdinNewline(begin, valid)
        ELSE IF Look(past) # "\n" THEN OdinNewline(past, valid)
        ELSE IF Look(While(past, Space)) = "}" THEN Fail(NoState)
        ELSE Emit(While(past, Space), "nl_comma", NoState)

\* What has been found of a number: a point, an "e", digits.
NoNumber == [first |-> TRUE, point |-> FALSE, exponent |-> FALSE, before |-> FALSE, after |-> FALSE, power |-> FALSE]
RECURSIVE OdinFloat(_, _, _)
OdinFloat(l, valid, found) ==
    LET rune    == Look(l)
        past    == Adv(l)
        f       == [found EXCEPT !.first = FALSE]
        some    == f.before \/ f.after
        ends    == some /\ (f.point \/ f.exponent)
        Float(end) == EmitHere(end, "float", NoState)
    IN  CASE rune = "." ->
               IF ends THEN Float(l)
               ELSE IF Look(past) = "." THEN OdinNewline(Adv(Adv(Mark(l))), valid)
               ELSE IF some /\ Look(past) \notin Digit THEN Float(past)
               ELSE OdinFloat(Mark(past), valid, [f EXCEPT !.point = TRUE])
          [] rune \in {"i", "j", "k"} ->
               IF f.after /\ ends THEN Float(past) ELSE OdinNewline(l, valid)
          [] rune = "e" ->
               IF some /\ f.exponent THEN Float(l)
               ELSE IF some THEN OdinFloat(past, valid, [f EXCEPT !.exponent = TRUE])
               ELSE OdinNewline(l, valid)
          [] rune \in {"+", "-"} ->
               IF found.first \/ (f.exponent /\ ~f.power) THEN OdinFloat(past, valid, f) ELSE OdinNewline(l, valid)
          [] rune \in Digit ->
               OdinFloat(past, valid, [f EXCEPT !.after = @ \/ f.point, !.before = @ \/ ~f.point,
                                                !.power = @ \/ f.exponent])
          [] OTHER ->
               IF ends THEN Float(l) ELSE IF f.before THEN Fail(NoState) ELSE OdinNewline(l, valid)

ScanOdin(l, valid) ==
    LET begin == SkipWhile(l, IF "newline" \in valid THEN Space \ {"\n"} ELSE Space)
    IN  IF "float" \in valid THEN OdinFloat(begin, valid, NoNumber) ELSE OdinComma(l, valid)
=============================================================================
