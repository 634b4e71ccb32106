------------------------------ MODULE StringPorts ------------------------------
(***************************************************************************)
(* Scanners of strings whose ends have to be looked for, and of words that *)
(* mean something only as a whole, without a state; and of strings that    *)
(* begin and end with a word, with so many signs or with a delimiter of    *)
(* their own: there the state is what will end the one that is open.       *)
(***************************************************************************)
EXTENDS ScannerKit

Erlang == Port("erlang", <<"tq_string", "tq_sigil_string", "error_sentinel">>, NoState)
Cue    == Port("cue", <<"multi_str_content", "multi_bytes_content", "raw_str_content", "raw_bytes_content",
                        "multi_raw_str_content", "multi_raw_bytes_content">>, NoState)
Nix    == Port("nix", <<"string_fragment", "indented_string_fragment", "path_start", "path_fragment",
                        "dollar_escape", "indented_dollar_escape">>, NoState)
Foam   == Port("foam", <<"identifier", "boolean", "eof">>, NoState)
Dtd    == Port("dtd", <<"pi_target", "pi_content", "comment">>, NoState)
-----------------------------------------------------------------------------
(* Erlang: three quotes or more, to as many at the beginning of a line.    *)

ErlangBlank == Space \ {"\n"}

RECURSIVE TripleQuoted(_, _)
TripleQuoted(l, count) ==
    LET quotes == While(Adv(l), ErlangBlank)
        closed == AtMost(quotes, {"\""}, count)
    IN  CASE Look(l) = EndOfText -> {}
          [] Look(l) = "\n" -> IF Covers(quotes, closed, count) THEN {Mark(closed)}
                               ELSE TripleQuoted(closed, count)
          [] OTHER -> TripleQuoted(Adv(l), count)

\* With the sign "~", and perhaps a letter, in front it is a sigil.
ScanErlang(l, valid) ==
    LET begin  == SkipWhile(l, ErlangBlank)
        sigil  == "tq_sigil_string" \in valid /\ Look(begin) = "~"
        quotes == IF sigil THEN Opt(Adv(begin), {"s", "S", "b", "B"}) ELSE begin
        text   == While(quotes, {"\""})
        line   == While(text, ErlangBlank)
    IN  IF /\ valid \cap {"tq_string", "tq_sigil_string"} # {}
           /\ text.at.pos >= quotes.at.pos + 3 /\ Look(line) = "\n"
        THEN EmitAt(TripleQuoted(Adv(line), text.at.pos - quotes.at.pos),
                    IF sigil THEN "tq_sigil_string" ELSE "tq_string")
        ELSE Fail(NoState)
-----------------------------------------------------------------------------
(* CUE: to the quotes that end a string, with a "#" if it is raw, or to an *)
(* interpolation.  Quotes alone are no content.                            *)

RECURSIVE CueContent(_, _, _, _, _)
CueContent(l, quote, many, raw, some) ==
    LET sign   == Adv(Mark(l))
        quotes == AtMost(Mark(l), {quote}, IF many THEN 3 ELSE 1)
        ends   == Covers(l, quotes, IF many THEN 3 ELSE 1) /\ (raw => Look(quotes) = "#")
        open   == IF raw THEN Opt(sign, {"#"}) ELSE sign
        hash   == raw => Went(sign, open)
        next   == IF raw /\ (many \/ hash) THEN open ELSE Adv(sign)
        Ends(at) == IF some THEN {at} ELSE {}
    IN  CASE Look(l) = EndOfText -> {}
          [] Look(l) = quote -> IF ends THEN Ends(quotes) ELSE CueContent(quotes, quote, many, raw, some)
          [] Look(l) = "\\" -> IF hash /\ Look(open) = "(" THEN Ends(open)
                               ELSE CueContent(next, quote, many, raw, TRUE)
          [] OTHER -> CueContent(Adv(l), quote, many, raw, TRUE)

ScanCue(l, valid) ==
    LET Content(symbol, quote, many, raw) ==
            Try(symbol \in valid, EmitAt(CueContent(l, quote, many, raw, FALSE), symbol))
    IN  FirstOf(Content("multi_str_content", "\"", TRUE, FALSE)
             \o Content("multi_bytes_content", "'", TRUE, FALSE)
             \o Content("multi_raw_str_content", "\"", TRUE, TRUE)
             \o Content("multi_raw_bytes_content", "'", TRUE, TRUE)
             \o Content("raw_str_content", "\"", FALSE, TRUE)
             \o Content("raw_bytes_content", "'", FALSE, TRUE), NoState)
-----------------------------------------------------------------------------
(* Nix: pieces of strings between escapes and interpolations, and paths.   *)

\* A piece in quotes (stop: the rune that ends it, or escapes a "$").
RECURSIVE NixFragment(_, _, _), NixPath(_, _, _)
NixFragment(l, indented, some) ==
    LET here == Mark(l)
        next == Adv(here)
        stop == IF indented THEN {"'"} ELSE {"\"", "\\"}
        Ends(at) == IF some THEN {at} ELSE {}
    IN  CASE Look(l) = EndOfText -> {}
          [] Look(l) = "$" -> IF Look(next) = "{" THEN Ends(next)
                              ELSE NixFragment(IF Look(next) \in stop THEN next ELSE Adv(next), indented, TRUE)
          [] Look(l) \in stop -> IF indented /\ Look(next) # "'" THEN NixFragment(next, indented, TRUE)
                                 ELSE Ends(here)
          [] OTHER -> NixFragment(next, indented, TRUE)

NixPathRune == AsciiLetter \cup Digit \cup {"-", "+", "_", ".", "/"}
\* To the end of a path, which has a "/", and something behind it or a "$".
NixPath(l, slash, name) ==
    CASE Look(l) = "/" -> NixPath(Adv(l), TRUE, name)
      [] Look(l) \in NixPathRune \ {"/"} -> NixPath(Adv(l), slash, slash)
      [] OTHER -> IF name \/ (slash /\ Look(l) = "$") THEN {Mark(l)} ELSE {}

\* The escape is marked in front of the "$" that it is for, or behind "''\".
NixIndentedEscape(l) ==
    LET sign == Mark(Adv(l))
    IN  CASE Look(sign) = "$" -> {sign}
          [] Look(sign) = "\\" /\ Look(Adv(sign)) = "$" -> {Mark(Adv(sign))}
          [] OTHER -> {}

ScanNix(l, valid) ==
    LET escape == Mark(Adv(l))
        tick   == Adv(Mark(l))
        path   == While(l, NixPathRune)
    IN  IF valid = {Nix.externals[i] : i \in 1 .. 6} THEN Fail(NoState)
        ELSE FirstOf(
          Try("string_fragment" \in valid,
              IF Look(l) # "\\" THEN EmitAt(NixFragment(l, FALSE, FALSE), "string_fragment")
              ELSE IF Look(escape) = "$" THEN Emit(escape, "dollar_escape", NoState) ELSE Fail(NoState))
          \o Try("indented_string_fragment" \in valid,
              IF Look(l) = "'" /\ Look(tick) = "'" THEN EmitAt(NixIndentedEscape(tick), "indented_dollar_escape")
              ELSE EmitAt(NixFragment(IF Look(l) = "'" THEN tick ELSE l, TRUE, FALSE), "indented_string_fragment"))
          \o Try("path_fragment" \in valid /\ Went(l, path), EmitHere(path, "path_fragment", NoState))
          \o Try("path_start" \in valid, EmitAt(NixPath(SkipWhile(l, Space \ {"\f"}), FALSE, FALSE), "path_start")),
          NoState)
-----------------------------------------------------------------------------
(* OpenFOAM: words, in which brackets are balanced.  Its first letters are *)
(* a boolean if they spell one, whatever follows.                          *)

FoamBooleans == {<<"o", "n">>, <<"o", "f", "f">>, <<"t", "r", "u", "e">>, <<"f", "a", "l", "s", "e">>}
FoamStop == Space \cup {"\"", "'", ";", "$", "#", "{", "}", "[", "]"}

\* Where the word ends, and whether it is a boolean.
RECURSIVE FoamWord(_, _, _)
FoamWord(l, first, depth) ==
    LET next == Adv(l)
    IN  CASE \/ Look(l) = EndOfText \/ (Look(l) \in FoamStop /\ depth = 0)
             \/ (Look(l) = ")" /\ depth = 0) -> [lexer |-> Mark(l), boolean |-> FALSE]
          [] Read(first, next) \in FoamBooleans -> [lexer |-> Mark(next), boolean |-> TRUE]
          [] OTHER -> FoamWord(next, first, depth + (CASE Look(l) = "(" -> 1 [] Look(l) = ")" -> -1 [] OTHER -> 0))

ScanFoam(l, valid) ==
    LET first == SkipWhile(l, Space)
        word  == FoamWord(Adv(first), first, 0)
        alpha == Look(first) \in AsciiLetter \cup {"_"}
    IN  FirstOf(
          Try(Look(first) = EndOfText /\ "eof" \in valid, EmitHere(first, "eof", NoState))
          \o Try(alpha /\ word.boolean, Emit(word.lexer, "boolean", NoState))
          \o Try(alpha /\ "identifier" \in valid, Emit(word.lexer, "identifier", NoState)), NoState)
-----------------------------------------------------------------------------
(* DTD: processing instructions, the target of which is not "xml".         *)

DtdStart == Letter \cup {"_", ":"}
DtdRune  == DtdStart \cup Digit \cup {".", "-"}

\* Behind an "x" an "m" is read with the rune behind it, name or not.
RECURSIVE DtdName(_, _), DtdDashes(_)
DtdName(l, x) ==
    LET m == Adv(l)
    IN  CASE Look(l) \notin DtdRune -> {Mark(l)}
          [] Look(l) \in {"m", "M"} /\ x ->
               IF Look(m) \in {"l", "L"} /\ Look(Adv(m)) \notin DtdRune THEN {}
               ELSE DtdName(IF Look(m) \in {"l", "L"} THEN Adv(Adv(m)) ELSE Adv(m), FALSE)
          [] OTHER -> DtdName(m, FALSE)

\* Behind the first "--".
DtdDashes(l) ==
    CASE Look(l) = EndOfText -> l
      [] Look(l) = "-" -> IF Look(Adv(l)) = "-" THEN Adv(Adv(l)) ELSE DtdDashes(Adv(l))
      [] OTHER -> DtdDashes(Adv(l))

ScanDtd(l, valid) ==
    LET end     == Mark(Until(l, {"\n", "?"}))
        line    == While(Along(end, "?>"), {" "})
        dashes  == DtdDashes(Along(l, "<!--"))
    IN  IF valid = {Dtd.externals[i] : i \in 1 .. 3} THEN Fail(NoState)
        ELSE FirstOf(
          Try("pi_target" \in valid,
              IF Look(l) \in DtdStart THEN EmitAt(DtdName(Adv(l), Look(l) \in {"x", "X"}), "pi_target")
              ELSE Fail(NoState))
          \o Try("pi_content" \in valid,
                 IF Follows(end, "?>") /\ Look(line) = "\n" THEN Emit(Adv(line), "pi_content", NoState)
                 ELSE Fail(NoState))
          \o Try("comment" \in valid /\ Follows(l, "<!--") /\ Look(dashes) = ">",
                 EmitHere(Adv(dashes), "comment", NoState)), NoState)
-----------------------------------------------------------------------------
Sql     == Port("sql", <<"dollar_quoted_string_tag", "content", "dollar_quoted_string_end_tag">>, << >>)
Jsonnet == Port("jsonnet", <<"string_start", "string_content", "string_end">>,
                [inside |-> FALSE, ending |-> "NUL"])
Cmake   == Port("cmake", <<"bracket_argument_open", "bracket_argument_content", "bracket_argument_close",
                           "bracket_comment_open", "bracket_comment_content", "bracket_comment_close",
                           "line_comment">>,
                [level |-> 0, token |-> "bracket_argument_open"])
Hack    == Port("hack", <<"heredoc_start", "heredoc_start_newline", "heredoc_body", "heredoc_end_newline",
                          "heredoc_end", "embedded_opening_brace">>,
                [delimiter |-> << >>, isNowdoc |-> FALSE, didStart |-> FALSE, didEnd |-> FALSE])
-----------------------------------------------------------------------------
(* SQL: $tag$...$tag$.                                                     *)

DollarTag(l) ==
    LET name == Adv(l)
        end  == While(name, AsciiLetter \cup Digit \cup {"_"})
    IN  IF Look(l) = "$" /\ Look(name) \in AsciiLetter \cup {"_", "$"} /\ Look(end) = "$"
        THEN {Adv(end)} ELSE {}

ScanSql(l, tag, valid) ==
    LET tags == DollarTag(l)
        text == Until(l, {"$"})
        open == tag # << >>
        Same == {end \in tags : Read(l, end) = tag}
    IN  FirstOf(
          Try("dollar_quoted_string_tag" \in valid /\ ~open,
              IF tags = {} THEN Fail(tag)
              ELSE LET end == CHOOSE e \in tags : TRUE
                   IN  EmitHere(end, "dollar_quoted_string_tag", Read(l, end)))
          \o Try("dollar_quoted_string_end_tag" \in valid /\ open,
                 EmitAny({Mark(end) : end \in Same}, "dollar_quoted_string_end_tag", << >>, tag))
          \o Try("content" \in valid /\ open /\ Went(l, text), EmitHere(text, "content", tag)), tag)
-----------------------------------------------------------------------------
(* Jsonnet: quoted strings, and blocks between two "|||".  Where a block   *)
(* might have ended content begins behind the bars read.                   *)

RECURSIVE JsonnetQuoted(_, _), JsonnetBlock(_)
JsonnetQuoted(l, ending) ==
    LET sign == Adv(l)
    IN  CASE Look(l) \in {"\n", ending} \cup AtEOF -> l
          [] Look(l) = "\\" ->
               IF Look(sign) = "z" THEN JsonnetQuoted(While(Adv(sign), Space), ending)
               ELSE JsonnetQuoted(Adv(sign), ending)
          [] OTHER -> JsonnetQuoted(sign, ending)
JsonnetBlock(l) ==
    LET bars == AtMost(Mark(l), {"|"}, 3)
    IN  CASE Look(l) = EndOfText -> {}
          [] Look(l) = "|" -> IF Covers(l, bars, 3) THEN {bars} ELSE JsonnetBlock(bars)
          [] OTHER -> JsonnetBlock(Adv(l))

ScanJsonnet(l, s, valid) ==
    LET begin  == SkipWhile(l, Space)
        block  == s.ending = "NUL"
        bars   == AtMost(l, {"|"}, 3)
        tried  == IF "string_end" \in valid /\ block THEN bars ELSE l
        Opened(at, ending) == Emit(at, "string_start", [inside |-> TRUE, ending |-> ending])
    IN  IF s.inside
        THEN FirstOf(
          Try("string_end" \in valid /\ block /\ Covers(l, bars, 3), Emit(bars, "string_end", Jsonnet.created))
          \o Try("string_end" \in valid /\ ~block /\ Look(l) = s.ending,
                 Emit(Adv(l), "string_end", Jsonnet.created))
          \o Try("string_content" \in valid /\ block, EmitAny(JsonnetBlock(tried), "string_content", s, s))
          \o Try("string_content" \in valid /\ ~block, Emit(JsonnetQuoted(l, s.ending), "string_content", s)), s)
        ELSE FirstOf(
          Try("string_start" \in valid /\ Look(begin) \in {"'", "\""}, Opened(Adv(begin), Look(begin)))
          \o Try("string_start" \in valid /\ Follows(begin, "|||"), Opened(Along(begin, "|||"), "NUL")), s)
-----------------------------------------------------------------------------
(* CMake: [==[...]==], as an argument or behind a "#".  The state is the   *)
(* number of signs, and the token of the last piece of a bracket.          *)

\* A bracket between two signs, with a number of "=" in it: where reading it
\* has come to, also if there is none.
Signs(l, sign, levels) ==
    LET inside == Opt(l, {sign})
        end    == IF Went(l, inside) THEN While(inside, {"="}) ELSE l
        level  == end.at.pos - inside.at.pos
        found  == Went(l, inside) /\ Look(end) = sign /\ level \in levels
    IN  [found |-> found, level |-> level, lexer |-> IF found THEN Mark(Adv(end)) ELSE end]

\* Past a "]" that ends nothing the rune behind it is read, too.
RECURSIVE CmakeContent(_, _)
CmakeContent(l, level) ==
    LET end == While(Adv(Mark(l)), {"="})
    IN  CASE Look(l) = EndOfText -> l
          [] Look(l) = "]" ->
               IF Covers(l, end, level + 1) /\ Look(end) = "]" THEN end
               ELSE CmakeContent(Mark(Adv(end)), level)
          [] OTHER -> CmakeContent(Mark(Adv(l)), level)

\* Each attempt goes on where the one before it has given up.
ScanCmake(l, s, valid) ==
    LET begin == SkipWhile(l, Space)
        open  == Signs(begin, "[", Nat)
        one   == IF "bracket_argument_open" \in valid THEN open.lexer ELSE begin
        closing == "bracket_argument_close" \in valid /\ s.token = "bracket_argument_content"
        close == Signs(one, "]", {s.level})
        two   == IF closing THEN close.lexer ELSE one
        end   == Signs(two, "]", {s.level})
        comment == Signs(Adv(two), "[", Nat)
        Opened(b, token) == Emit(b.lexer, token, [level |-> b.level, token |-> token])
        Content(at, token, behind) ==
            Try(token \in valid /\ s.token = behind,
                Emit(CmakeContent(at, s.level), token, [s EXCEPT !.token = token]))
        Closed(b, token) == Try(b.found, Emit(b.lexer, token, [s EXCEPT !.level = 0]))
    IN  FirstOf(
          Try("bracket_argument_open" \in valid /\ open.found, Opened(open, "bracket_argument_open"))
          \o Content(one, "bracket_argument_content", "bracket_argument_open")
          \o (IF closing THEN Closed(close, "bracket_argument_close") ELSE << >>)
          \o Try(Look(two) = "#",
                 IF valid \cap {"bracket_comment_open", "line_comment"} = {} THEN Fail(s)
                 ELSE IF comment.found THEN Opened(comment, "bracket_comment_open")
                 ELSE EmitHere(Until(comment.lexer, Breaks), "line_comment", s))
          \o Content(two, "bracket_comment_content", "bracket_comment_open")
          \o (IF "bracket_comment_close" \in valid /\ s.token = "bracket_comment_content"
              THEN Closed(end, "bracket_comment_close") ELSE << >>), s)
-----------------------------------------------------------------------------
(* Hack: heredocs and nowdocs.                                             *)

HackStart == Letter \cup {"_"}
HackDelimiter(l, s) == AlongRunes(l, s.delimiter)
HackMatches(l, s)   == Covers(l, HackDelimiter(l, s), Len(s.delimiter))

\* The delimiter is kept when the scan fails.
HackOpening(l, s) ==
    LET begin  == SkipWhile(l, Space)
        quoted == Look(begin) \in {"'", "\""}
        name   == IF quoted THEN Adv(begin) ELSE begin
        end    == IF Look(name) \in HackStart THEN While(name, HackStart \cup Digit) ELSE name
        read   == [s EXCEPT !.isNowdoc = Look(begin) = "'", !.delimiter = Read(name, end)]
        closed == IF quoted THEN Opt(end, {Look(begin)}) ELSE end
        line   == Adv(Mark(closed))
        last   == Opt(HackDelimiter(line, read), {";"})
    IN  IF (quoted => Went(end, closed)) /\ Look(closed) = "\n" /\ read.delimiter # << >>
        THEN Emit(IF HackMatches(line, read) THEN last ELSE HackDelimiter(line, read), "heredoc_start",
                  [read EXCEPT !.didEnd = @ \/ (HackMatches(line, read) /\ Look(last) = "\n")])
        ELSE Fail(read)

\* Some of the body has been read in this call, or none.
RECURSIVE HackBody(_, _, _)
HackBody(l, s, some) ==
    LET here  == Mark(l)
        brace == Opt(here, {"{"})
        first == Went(here, brace) /\ Look(brace) = "$" /\ ~some   \* "{$" at the beginning
        inner == IF first THEN Adv(Mark(brace)) ELSE brace
        name  == Opt(inner, {"$"})
        line  == CASE some -> Adv(here)
                   [] ~some /\ Look(l) = "\n" -> IF s.didEnd THEN Skip(l) ELSE Mark(Adv(l))
                   [] OTHER -> l
        found == HackMatches(line, s)
        delim == IF found /\ ~some /\ s.didEnd THEN Mark(HackDelimiter(line, s)) ELSE HackDelimiter(line, s)
        last  == IF found THEN Opt(delim, {";"}) ELSE delim
        ended == [s EXCEPT !.didStart = TRUE, !.didEnd = TRUE]
    IN  CASE Look(l) = EndOfText -> Fail(s)
          [] Look(l) = "\\" -> HackBody(Adv(Adv(l)), s, TRUE)
          [] Look(l) \in {"{", "$"} /\ ~s.isNowdoc ->
               IF first /\ Look(inner) \in HackStart THEN Emit(inner, "embedded_opening_brace", s)
               ELSE IF Went(inner, name) /\ Look(name) \in HackStart
               THEN IF some THEN Emit(name, "heredoc_body", s) ELSE Fail(s)
               ELSE HackBody(name, s, TRUE)
          [] OTHER ->
               IF ~s.didEnd /\ Look(l) # "\n" THEN HackBody(Adv(l), s, TRUE)
               ELSE IF found /\ Look(last) = "\n"
               THEN IF some THEN Emit(last, "heredoc_body", ended)
                    ELSE IF s.didEnd THEN Emit(last, "heredoc_end", Hack.created)
                    ELSE Emit(last, "heredoc_end_newline", ended)
               ELSE IF ~found /\ ~s.didStart /\ ~some
               THEN Emit(last, "heredoc_start_newline", [s EXCEPT !.didStart = TRUE])
               ELSE HackBody(last, s, TRUE)

ScanHack(l, s, valid) ==
    IF valid \cap {"heredoc_body", "heredoc_end", "embedded_opening_brace"} # {} /\ s.delimiter # << >>
    THEN HackBody(l, s, FALSE)
    ELSE IF "heredoc_start" \in valid THEN HackOpening(l, s) ELSE Fail(s)
-----------------------------------------------------------------------------
CONSTANT MaxRawStringDelimiterLen   \* 16

RawString(name) ==
    Port(name, <<"raw_string_delimiter", "raw_string_content">>, << >>)
Cpp     == RawString("cpp")
Cuda    == RawString("cuda")
Arduino == RawString("arduino")
Hlsl    == RawString("hlsl")
Haxe    == Port("haxe", <<"lookback_semicolon", "closing_brace_marker",
                          "closing_brace_unmarker">>, FALSE)
Bicep   == Port("bicep", <<"external_asterisk", "multiline_string_content">>, 0)
Nushell == Port("nushell", <<"raw_string_begin", "raw_string_content", "raw_string_end">>, 0)
Luau    == Port("luau", <<"block_comment_start", "block_comment_content", "block_comment_end",
                          "string_start", "string_content", "string_end">>,
                [ending |-> "NUL", level |-> 0])
-----------------------------------------------------------------------------
(* R"delimiter(...)delimiter" of C++ and its kin: the state is the         *)
(* delimiter of the open string.  Its opening token is empty: it ends      *)
(* where it begins, as no end is marked.                                   *)

RECURSIVE RawOpening(_, _), RawContent(_, _, _)
RawOpening(l, delimiter) ==
    IF Len(delimiter) >= MaxRawStringDelimiterLen \/ Look(l) \in Space \cup {"\\"} \cup AtEOF
    THEN Fail(delimiter)
    ELSE IF Look(l) # "(" THEN RawOpening(Adv(l), Append(delimiter, Look(l)))
    ELSE IF delimiter = << >> THEN Fail(delimiter)
    ELSE Emit(l, "raw_string_delimiter", delimiter)

RawClosing(l, delimiter) ==
    LET RECURSIVE Past(_, _)
        Past(at, rest) == IF rest = << >> THEN {Mark(at)}
                          ELSE IF Look(at) # Head(rest) THEN {} ELSE Past(Adv(at), Tail(rest))
    IN  EmitAny(Past(l, delimiter), "raw_string_delimiter", << >>, delimiter)

\* So many runes of ")" and the delimiter have been matched, or none (-1).
RawContent(l, delimiter, matched) ==
    LET more == IF matched \in 0 .. Len(delimiter) - 1 /\ Look(l) = delimiter[matched + 1]
                THEN matched + 1 ELSE -1
        ends == more = -1 /\ Look(l) = ")"
    IN  CASE Look(l) = EndOfText -> EmitHere(l, "raw_string_content", delimiter)
          [] matched = Len(delimiter) /\ Look(l) = "\"" -> Emit(l, "raw_string_content", delimiter)
          [] OTHER -> RawContent(Adv(IF ends THEN Mark(l) ELSE l), delimiter,
                                 IF ends THEN 0 ELSE more)

\* Both may come: the parser is recovering.
ScanRawString(l, delimiter, valid) ==
    CASE valid \cap {"raw_string_delimiter", "raw_string_content"} = {"raw_string_delimiter"} ->
           IF delimiter # << >> THEN RawClosing(l, delimiter) ELSE RawOpening(l, << >>)
      [] valid \cap {"raw_string_delimiter", "raw_string_content"} = {"raw_string_content"} ->
           RawContent(l, delimiter, -1)
      [] OTHER -> Fail(delimiter)
-----------------------------------------------------------------------------
(* Whether a closing brace has just been marked.                           *)

HaxeSpace == {" ", "\n", "\t", "\r"}
ScanHaxe(l, marked, valid) ==
    LET next == IF "closing_brace_marker" \in valid THEN SkipWhile(Mark(l), HaxeSpace) ELSE l
    IN  IF "lookback_semicolon" \in valid
        THEN IF Look(l) = ";" THEN Emit(Adv(l), "lookback_semicolon", FALSE)
             ELSE IF marked THEN Emit(l, "lookback_semicolon", FALSE) ELSE Fail(marked)
        ELSE FirstOf(
          Try("closing_brace_marker" \in valid /\ Look(next) = "}",
              Emit(next, "closing_brace_marker", TRUE))
          \o Try("closing_brace_unmarker" \in valid /\ marked /\ Look(next) \notin HaxeSpace \cup {"}"},
                 Emit(next, "closing_brace_unmarker", FALSE)), marked)
-----------------------------------------------------------------------------
(* '''...''': the quotes more than three at its end, which are content.    *)

RECURSIVE BicepContent(_, _, _)
BicepContent(l, quotes, some) ==
    LET three == Along(Mark(l), "'''")
        more  == While(three, {"'"})
        count == Byte(more.at.pos - three.at.pos)
    IN  CASE Look(l) = EndOfText -> Fail(quotes)
          [] Look(l) = "'" /\ quotes > 0 -> Emit(Ahead(l, quotes), "multiline_string_content", 0)
          [] Look(l) = "'" /\ quotes = 0 ->
               IF ~ Covers(l, three, 3) THEN BicepContent(Adv(three), 0, TRUE)
               ELSE IF some THEN Emit(more, "multiline_string_content", count) ELSE Fail(count)
          [] OTHER -> BicepContent(Adv(l), quotes, TRUE)

\* An asterisk that is not the one of "*:" has been read all the same.
ScanBicep(l, quotes, valid) ==
    LET begin == IF "external_asterisk" \in valid THEN SkipWhile(l, Space) ELSE l
        star  == "external_asterisk" \in valid /\ Look(begin) = "*"
        next  == IF star THEN Mark(Adv(begin)) ELSE begin
    IN  IF star /\ Look(next) = ":" THEN Emit(next, "external_asterisk", quotes)
        ELSE IF "multiline_string_content" \in valid THEN BicepContent(next, quotes, FALSE)
        ELSE Fail(quotes)
-----------------------------------------------------------------------------
(* r##'...'##: the number of "#".  Only the content has an extent.         *)

RECURSIVE NushellContent(_, _)
NushellContent(l, level) ==
    LET one    == Adv(Mark(l))
        hashes == While(one, {"#"})
    IN  IF Look(l) = EndOfText THEN Fail(level)
        ELSE IF Byte(hashes.at.pos - one.at.pos) = level
        THEN Emit(hashes, "raw_string_content", level)
        ELSE NushellContent(hashes, level)

ScanNushell(l, level, valid) ==
    LET r      == Adv(SkipWhile(l, Space))
        hashes == While(r, {"#"})
    IN  CASE "raw_string_begin" \in valid /\ level = 0 ->
               IF Look(SkipWhile(l, Space)) = "r" /\ Look(hashes) = "'"
               THEN Emit(Adv(hashes), "raw_string_begin", Byte(hashes.at.pos - r.at.pos))
               ELSE Fail(level)
          [] "raw_string_content" \in valid /\ level # 0 -> NushellContent(l, level)
          [] /\ "raw_string_content" \notin valid /\ level # 0
             /\ "raw_string_end" \in valid /\ Look(l) = "'" ->
               Emit(Ahead(Adv(l), level), "raw_string_end", 0)
          [] OTHER -> Fail(level)
-----------------------------------------------------------------------------
(* Strings in quotes or long brackets and comments in long brackets: the   *)
(* quote, or none, and the number of "=" in the brackets.                  *)

LuauClosed == Luau.created

\* "[==[" or "]==]": behind it and its level, in a set of at most one; and how
\* far it is read where it is not all there.
LongBracket(l, bracket) ==
    LET equals == While(Adv(l), {"="})
    IN  IF Look(l) = bracket /\ Look(equals) = bracket
        THEN {[end |-> Adv(equals), level |-> Byte(equals.at.pos - l.at.pos - 1)]} ELSE {}
Tried(l, bracket) == IF Look(l) = bracket THEN While(Adv(l), {"="}) ELSE l
Closing(l, level) == {b.end : b \in {c \in LongBracket(l, "]") : c.level = level}}

\* Up to the bracket that closes.
RECURSIVE LongContent(_, _), QuotedContent(_, _)
LongContent(l, level) ==
    CASE Look(l) = EndOfText -> {}
      [] Look(l) = "]" -> IF Closing(l, level) # {} THEN {Mark(l)}
                          ELSE LongContent(Tried(l, "]"), level)
      [] OTHER -> LongContent(Adv(l), level)
\* "\z" takes the blanks behind it along.
QuotedContent(l, quote) ==
    LET past == IF Look(l) = "\\" THEN Adv(l) ELSE l
    IN  IF Look(l) \in {"\n", quote} \cup AtEOF THEN l
        ELSE IF Look(l) = "\\" /\ Look(past) = "z"
        THEN QuotedContent(While(Adv(past), Space), quote)
        ELSE IF Look(past) = EndOfText THEN past ELSE QuotedContent(Adv(past), quote)

LuauStart(l, s, valid) ==
    LET string == "string_start" \in valid
        long   == IF string THEN LongBracket(l, "[") ELSE {}
        dashes == IF string THEN Tried(l, "[") ELSE l
        block  == IF Follows(dashes, "--") THEN LongBracket(Along(dashes, "--"), "[") ELSE {}
        Opened(b, end, symbol) == Emit(end, symbol, [s EXCEPT !.level = b.level])
    IN  CASE string /\ Look(l) \in {"\"", "'"} ->
               Emit(Adv(l), "string_start", [s EXCEPT !.ending = Look(l)])
          [] long # {} -> LET b == CHOOSE x \in long : TRUE IN Opened(b, b.end, "string_start")
          [] long = {} /\ "block_comment_start" \in valid /\ block # {} ->
               LET b == CHOOSE x \in block : TRUE IN Opened(b, Mark(b.end), "block_comment_start")
          [] OTHER -> Fail(s)

\* In this order, each where the one before it has stopped reading.
ScanLuau(l, s, valid) ==
    LET long == s.ending = EndOfText
        Ends(at, symbol) ==
          IF symbol \notin valid THEN {}
          ELSE IF long THEN Closing(at, s.level) ELSE IF Look(at) = s.ending THEN {Adv(at)} ELSE {}
        Past(at, symbol) == IF symbol \in valid /\ long THEN Tried(at, "]") ELSE at
        body == Past(l, "string_end")
        last == Past(body, "block_comment_end")
        line == Until(last, {s.ending})
    IN  FirstOf(
          Try(Ends(l, "string_end") # {},
              EmitAny(Ends(l, "string_end"), "string_end", LuauClosed, s))
          \o Try("string_content" \in valid,
                 IF long THEN EmitAny(LongContent(body, s.level), "string_content", s, s)
                 ELSE Emit(QuotedContent(body, s.ending), "string_content", s))
          \o Try(long /\ Ends(body, "block_comment_end") # {},
                 EmitAny(Ends(body, "block_comment_end"), "block_comment_end", LuauClosed, s))
          \o Try("block_comment_content" \in valid,
                 IF long THEN EmitAny(LongContent(last, s.level), "block_comment_content", s, s)
                 ELSE IF Look(line) = s.ending THEN Emit(line, "block_comment_content", LuauClosed)
                 ELSE Fail(s))
          \o << LuauStart(SkipWhile(last, Space), s, valid) >>, s)
=============================================================================
