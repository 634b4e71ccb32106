----------------------------- MODULE DocumentPorts -----------------------------
(***************************************************************************)
(* Scanners of documents: comments and code kept out of a text, lines      *)
(* with columns, lists and sections, heredocs, and dumps.                  *)
(***************************************************************************)
EXTENDS ScannerKit

CONSTANT DockerfileMaxHeredocs   \* 10

Liquid  == Port("liquid", <<"inline_comment_content", "paired_comment_content", "paired_comment_content_liq",
                            "raw_content", "front_matter", "error_sentinel">>, NoState)
Doxygen == Port("doxygen", <<"brief_text", "code_block_start", "code_block_language", "code_block_content",
                             "code_block_end">>, NoState)
Cobol   == Port("cobol", <<"white_spaces", "line_prefix_comment", "line_suffix_comment", "line_comment",
                           "comment_entry", "multiline_string">>, NoState)
Org     == Port("org", <<"list_start", "list_end", "list_item_end", "bullet", "stars", "section_end", "eof">>,
                [items |-> <<[indent |-> -1, bullet |-> "none"]>>, sections |-> <<0>>])
Dockerfile == Port("dockerfile", <<"heredoc_marker", "heredoc_line", "heredoc_end", "heredoc_nl", "error_sentinel">>,
                   [inHeredoc |-> FALSE, stripping |-> FALSE, heredocs |-> << >>])
Disassembly == Port("disassembly", <<"code_identifier", "instruction", "memory_dump", "error_sentinel">>,
                    [count |-> 0, width |-> 0])

LineEnds == {"\n", "\r"} \cup AtEOF
-----------------------------------------------------------------------------
(* Liquid.  Blanks inside "{% end" that are skipped take the end that was  *)
(* marked in front of it along.                                            *)

\* Past an end of line, or any other rune.
PastLine(l) == IF Look(l) = "\r" THEN Opt(Adv(l), {"\n"}) ELSE Adv(l)
RECURSIVE FrontLines(_), LiquidBody(_, _), LiquidInline(_)
FrontLines(l) ==
    LET begin  == PastLine(l)
        dashes == While(begin, {"-"})
        blanks == IF Covers(begin, dashes, 3) THEN While(dashes, Blanks) ELSE dashes
        end    == Until(blanks, Breaks)
    IN  IF Covers(begin, dashes, 3) /\ Look(blanks) \in LineEnds
        THEN {Mark(IF Look(blanks) = EndOfText THEN blanks ELSE PastLine(blanks))}
        ELSE IF Look(end) = EndOfText THEN {} ELSE FrontLines(end)
\* The first rune may be any.
FrontMatter(l) ==
    LET rest   == Adv(l)
        blanks == While(Along(rest, "--"), Blanks)
    IN  IF Follows(rest, "--") /\ Look(blanks) \in Breaks THEN FrontLines(blanks) ELSE {}

LiquidInline(l) ==
    LET here == Mark(l)
        past == Adv(here)
    IN  CASE Look(l) = EndOfText -> {}
          [] Look(l) = "\n" -> {Mark(past)}
          [] Look(l) = "%"  -> IF Look(past) = "}" THEN {Adv(past)} ELSE LiquidInline(Adv(past))
          [] OTHER -> LiquidInline(past)

LiquidBody(l, valid) ==
    LET begin == Mark(SkipWhile(l, Space))
        bare  == "paired_comment_content_liq" \in valid
        tag   == Along(begin, "{%")
        word  == IF bare THEN begin ELSE SkipWhile(Opt(tag, {"-"}), Space)
        stem  == IF Look(word) = "e" THEN Along(word, "end") ELSE word
        raw   == Along(stem, "raw")
        end   == Along(raw, "comment")
        comment == Covers(raw, end, 7)
        close == Opt(SkipWhile(end, Space), {"-"})
        Found(symbol) == IF Look(close) # "%" THEN LiquidBody(close, valid)
                         ELSE IF Look(Adv(close)) # "}" THEN LiquidBody(Adv(close), valid)
                         ELSE Emit(Ahead(close, 2), symbol, NoState)
    IN  IF Look(l) = EndOfText THEN Fail(NoState)
        ELSE IF ~bare /\ ~Covers(begin, tag, 2)
        THEN LiquidBody(IF Went(begin, tag) THEN tag ELSE Adv(begin), valid)
        ELSE IF Look(word) = "e" /\ ~Covers(word, stem, 3) THEN LiquidBody(Adv(stem), valid)
        ELSE IF comment /\ "paired_comment_content" \in valid THEN Found("paired_comment_content")
        ELSE IF comment /\ bare THEN Emit(end, "paired_comment_content_liq", NoState)
        ELSE IF Covers(stem, raw, 3) /\ "raw_content" \in valid THEN Found("raw_content")
        ELSE LiquidBody(Adv(end), valid)

\* A comment that the text ends in is none.
ScanLiquid(l, valid) ==
    LET begin  == SkipWhile(l, Space)
        inline == "inline_comment_content" \in valid /\ Look(begin) = "#"
        ends   == IF inline THEN LiquidInline(Adv(begin)) ELSE {}
    IN  IF "error_sentinel" \in valid THEN Fail(NoState)
        ELSE IF "front_matter" \in valid THEN EmitAt(FrontMatter(l), "front_matter")
        ELSE IF ends # {} THEN EmitAt(ends, "inline_comment_content")
        ELSE IF inline \/ valid \cap {"paired_comment_content", "paired_comment_content_liq", "raw_content"} = {}
        THEN Fail(NoState) ELSE LiquidBody(begin, valid)
-----------------------------------------------------------------------------
(* Doxygen.                                                                *)

CodeEnd == Blanks \cup LineEnds
\* A word behind "@" or a backslash, in a set of at most one.
DoxygenCommand(l, word, behind) ==
    {end \in {Along(Adv(l), word)} : /\ Look(l) \in {"@", "\\"} /\ Covers(Adv(l), end, Len(word))
                                     /\ Look(end) \in behind}

\* Up to the end of the block, with some of the block read before.
RECURSIVE DoxygenContent(_, _)
DoxygenContent(l, some) ==
    CASE Look(l) = EndOfText -> IF some THEN {Mark(l)} ELSE {}
      [] Look(l) \in {"@", "\\"} ->
           IF DoxygenCommand(l, "endcode", CodeEnd) = {}
           THEN DoxygenContent(Along(Adv(Mark(l)), "endcode"), TRUE)
           ELSE IF some THEN {Mark(l)} ELSE {}
      [] OTHER -> DoxygenContent(Adv(l), TRUE)

\* Only the first that may come is looked for.
ScanDoxygen(l, valid) ==
    LET dot  == Adv(l)
        lang == Until(Adv(dot), {"}", "\n"})
        line == Until(l, {"\n"})
        Marked(ends, symbol) == EmitAt({Mark(e) : e \in ends}, symbol)
    IN  IF "code_block_end" \in valid THEN Marked(DoxygenCommand(l, "endcode", CodeEnd), "code_block_end")
        ELSE IF "code_block_content" \in valid THEN EmitAt(DoxygenContent(l, FALSE), "code_block_content")
        ELSE IF "code_block_language" \in valid
        THEN Marked({Adv(e) : e \in {x \in {lang} : /\ Look(l) = "{" /\ Look(dot) = "."
                                                    /\ Went(Adv(dot), x) /\ Look(x) = "}"}},
                    "code_block_language")
        ELSE IF "code_block_start" \in valid
        THEN Marked(DoxygenCommand(l, "code", CodeEnd \cup {"{"}), "code_block_start")
        ELSE Marked({e \in {line} : "brief_text" \in valid /\ Went(l, e)}, "brief_text")
-----------------------------------------------------------------------------
(* COBOL: the columns before the seventh are comment, and those from the   *)
(* 73rd on.  All of a comment is skipped, and its token is empty.          *)

CobolWhite    == Space \cup {";", ","}
CobolKeywords == {"author", "installlation", "date-written", "date-compiled", "security",
                  "identification division", "environment division", "data division", "procedure division"}

\* A text that ends in these columns is never got past.
RECURSIVE CobolPrefix(_), SkipColumns(_, _), CobolEntry(_, _), CobolString(_)
CobolPrefix(l) ==
    IF l.at.col > 5 THEN Emit(Mark(l), "line_prefix_comment", NoState)
    ELSE IF Look(l) = EndOfText THEN Stopped(NoState) ELSE CobolPrefix(Skip(l))
SkipColumns(l, last) ==
    IF l.at.col >= last \/ Look(l) \in {"\n"} \cup AtEOF THEN l ELSE SkipColumns(Skip(l), last)

\* What is left of the keywords that the line may begin with.
CobolEntry(l, rests) ==
    IF l.at.col > 71 \/ Look(l) \in {"\n"} \cup AtEOF THEN {Mark(l)}
    ELSE IF rests = {} THEN {Mark(SkipColumns(l, 71))}
    ELSE IF "" \in rests THEN {}
    ELSE CobolEntry(Skip(l), {SubSeq(r, 2, Len(r)) : r \in {k \in rests : Upper(SubSeq(k, 1, 1)) = Upper(Look(l))}})

\* A line that ends in the 72nd column goes on behind "-" and a quote.
CobolString(l) ==
    LET RECURSIVE Inside(_)
        Inside(at) == IF Look(at) \in {"\""} \cup AtEOF \/ at.at.col >= 72 THEN at ELSE Inside(Adv(at))
        end   == Inside(Adv(l))
        line  == SkipUntil(end, {"\n"})
        next  == Skip(line)
        seven == SkipColumns(next, 6)
        blank == IF Look(seven) = "-" THEN Skip(seven) ELSE seven
        RECURSIVE Margin(_)
        Margin(at) == IF Look(at) = " " /\ at.at.col < 72 THEN Margin(Skip(at)) ELSE at
    IN  IF Look(l) # "\"" THEN {}
        ELSE IF Look(end) = "\"" THEN {Mark(Adv(end))}
        ELSE IF Look(line) = EndOfText \/ seven.at.col # 6 \/ Look(seven) # "-" THEN {}
        ELSE CobolString(Margin(blank))

ScanCobol(l, valid) ==
    LET star == Look(l) \in {"*", "/"}
    IN  IF Look(l) = EndOfText THEN Fail(NoState)
        ELSE FirstOf(
          Try("white_spaces" \in valid /\ Look(l) \in CobolWhite,
              Emit(Mark(SkipWhile(l, CobolWhite)), "white_spaces", NoState))
          \o Try("line_prefix_comment" \in valid /\ l.at.col <= 5, CobolPrefix(l))
          \o Try("line_comment" \in valid /\ l.at.col = 6,
                 IF star THEN Emit(Mark(SkipUntil(l, {"\n"})), "line_comment", NoState) ELSE Fail(NoState))
          \o Try("line_suffix_comment" \in valid /\ l.at.col >= 72,
                 Emit(Mark(SkipUntil(l, {"\n"})), "line_suffix_comment", NoState))
          \o Try("comment_entry" \in valid,
                 EmitAt(CobolEntry(SkipWhile(l, Blanks), CobolKeywords), "comment_entry"))
          \o Try("multiline_string" \in valid, EmitAt(CobolString(l), "multiline_string")), NoState)
-----------------------------------------------------------------------------
(* Org: lists by their margin and bullet, sections by their stars.  A list *)
(* that ends is taken off the stack whatever the parser has opened; at the *)
(* end of the text it is not.                                              *)

\* What may begin an item, and where it ends.
OrgBullet(l) ==
    LET class == CASE Look(l) \in Small -> "a" [] Look(l) \in Capital -> "A" [] OTHER -> "1"
        word  == IF Look(l) \in Digit THEN While(l, Digit) ELSE Adv(l)
        end   == Adv(word)
    IN  CASE Look(l) \in {"-", "+", "*"} ->
               [lexer |-> word, kind |-> IF Look(word) \in Space THEN Look(l) ELSE "none"]
          [] Look(l) \in AsciiLetter \cup Digit ->
               IF Look(word) \notin {".", ")"} THEN [lexer |-> word, kind |-> "none"]
               ELSE [lexer |-> end, kind |-> IF Look(end) \in Space THEN class \o Look(word) ELSE "none"]
          [] OTHER -> [lexer |-> l, kind |-> "none"]

\* The margin of the next line with something on it: none after an empty line.
RECURSIVE OrgMargin(_, _, _)
OrgMargin(l, indent, newlines) ==
    CASE Look(l) = " "  -> OrgMargin(Skip(l), indent + 1, newlines)
      [] Look(l) = "\t" -> OrgMargin(Skip(l), indent + 8, newlines)
      [] Look(l) = "\n" /\ newlines = 0 -> OrgMargin(Skip(l), 0, 1)
      [] OTHER -> [lexer |-> l, indent |-> indent, newlines |-> newlines,
                   over |-> Look(l) \in {"\n"} \cup AtEOF]

OrgItem(l, m, s, valid) ==
    LET b    == OrgBullet(l)
        back == TopOf(s.items)
    IN  IF s.items = << >> THEN Stopped(s)
        ELSE IF "bullet" \in valid /\ b.kind = back.bullet /\ m.indent = back.indent
        THEN EmitHere(b.lexer, "bullet", s)
        ELSE IF "list_start" \in valid /\ b.kind # "none" /\ m.indent > back.indent
        THEN Emit(b.lexer, "list_start",
                  [s EXCEPT !.items = Append(@, [indent |-> m.indent, bullet |-> b.kind])])
        ELSE Fail(s)

OrgHeadline(l, s, valid) ==
    LET stars == SkipWhile(Mark(l), {"*"})
        count == stars.at.pos - l.at.pos
    IN  IF Look(stars) \notin Space THEN Fail(s)
        ELSE IF "section_end" \in valid /\ count <= TopOf(s.sections)
        THEN Emit(stars, "section_end", [s EXCEPT !.sections = Front(@)])
        ELSE IF "stars" \in valid THEN Emit(stars, "stars", [s EXCEPT !.sections = Append(@, count)])
        ELSE Fail(s)

ScanOrg(l, s, valid) ==
    LET first == Columns(Mark(l), 0)
        lists == valid \cap {"list_end", "list_item_end"} # {}
        m     == IF lists THEN OrgMargin(first.lexer, first.indent, 0)
                 ELSE [lexer |-> first.lexer, indent |-> first.indent, newlines |-> 0, over |-> FALSE]
        b     == OrgBullet(m.lexer)
        Ended(at) == IF s.items = << >> THEN Stopped(s)
                     ELSE Emit(at, "list_end", [s EXCEPT !.items = Front(@)])
    IN  IF valid = SymbolsIn(Org) THEN Fail(s)
        ELSE IF Look(first.lexer) = EndOfText
        THEN FirstOf(Try("list_end" \in valid, Emit(first.lexer, "list_end", s))
                     \o Try("section_end" \in valid, Emit(first.lexer, "section_end", s))
                     \o Try("eof" \in valid, Emit(first.lexer, "eof", s)), s)
        ELSE IF m.over THEN Ended(m.lexer)
        ELSE IF lists /\ s.items = << >> THEN Stopped(s)
        ELSE IF lists /\ m.indent < TopOf(s.items).indent THEN Ended(m.lexer)
        ELSE IF lists /\ m.indent = TopOf(s.items).indent
        THEN IF b.kind = TopOf(s.items).bullet THEN Emit(b.lexer, "list_item_end", s) ELSE Ended(b.lexer)
        ELSE IF m.indent = 0 /\ Look(m.lexer) = "*" THEN OrgHeadline(m.lexer, s, valid)
        ELSE IF valid \cap {"list_start", "bullet"} # {} /\ m.newlines = 0 THEN OrgItem(m.lexer, m, s, valid)
        ELSE Fail(s)
-----------------------------------------------------------------------------
(* Dockerfile: heredocs, the last opened of which ends first.              *)

\* A rune outside ASCII is kept as a byte that is not it.
DelimiterByte(rune) == IF rune = "E" THEN "E1" ELSE rune
RECURSIVE DockerfileQuoted(_, _, _)
\* The delimiter in quotes, and where it ends, in a set of at most one.
DockerfileQuoted(l, quote, read) ==
    LET rune == IF Look(l) = "\\" THEN Adv(l) ELSE l
    IN  IF {Look(l), Look(rune)} \cap ({"\n"} \cup AtEOF) # {} THEN {}
        ELSE IF Look(l) = quote THEN {[lexer |-> Adv(l), delimiter |-> read]}
        ELSE DockerfileQuoted(Adv(rune), quote, Append(read, DelimiterByte(Look(rune))))

DockerfileMarker(l, s) ==
    LET arrows == Along(l, "<<")
        begin  == Opt(arrows, {"-"})
        end    == While(begin, AsciiLetter \cup Digit \cup {"_"})
        found  == IF Look(begin) \in {"\"", "'"} THEN DockerfileQuoted(Adv(begin), Look(begin), << >>)
                  ELSE IF Look(begin) \in AsciiLetter \cup {"_"}
                  THEN {[lexer |-> end, delimiter |-> Read(begin, end)]} ELSE {}
    IN  IF \/ ~Covers(l, arrows, 2) \/ \A m \in found : m.delimiter = << >>
           \/ Len(s.heredocs) >= DockerfileMaxHeredocs
        THEN Fail(s)
        ELSE LET m == CHOOSE x \in found : TRUE
             IN  EmitHere(m.lexer, "heredoc_marker",
                          [inHeredoc |-> TRUE, stripping |-> Went(arrows, begin),
                           heredocs |-> Append(s.heredocs, m.delimiter)])

\* What has been read of a delimiter that is none is no content.
DockerfileContent(l, s, valid) ==
    LET tabs == IF s.stripping THEN While(l, {"\t"}) ELSE l
        end  == AlongRunes(tabs, TopOf(s.heredocs))
        next == IF "heredoc_end" \in valid THEN end ELSE l
        line == Until(next, {"\n"})
    IN  IF s.heredocs = << >> THEN Fail(s)
        ELSE IF /\ "heredoc_end" \in valid /\ Read(tabs, end) = TopOf(s.heredocs)
                /\ Look(end) \in {"\n"} \cup AtEOF
        THEN EmitHere(end, "heredoc_end", [s EXCEPT !.heredocs = Front(@), !.inHeredoc = Len(s.heredocs) > 1])
        ELSE IF "heredoc_line" \in valid /\ Went(next, line) THEN EmitHere(line, "heredoc_line", s)
        ELSE Fail(s)

ScanDockerfile(l, s, valid) ==
    LET sentinel == "error_sentinel" \in valid
    IN  IF ~sentinel /\ "heredoc_nl" \in valid /\ s.heredocs # << >> /\ Look(l) = "\n"
        THEN EmitHere(Adv(l), "heredoc_nl", s)
        ELSE IF (sentinel /\ ~s.inHeredoc) \/ (~sentinel /\ "heredoc_marker" \in valid)
        THEN DockerfileMarker(l, s)
        ELSE IF sentinel \/ valid \cap {"heredoc_line", "heredoc_end"} # {} THEN DockerfileContent(l, s, valid)
        ELSE Fail(s)
-----------------------------------------------------------------------------
(* Disassembly: an instruction or a dump of memory, which is told by the   *)
(* number of runes in the line, if bytes were found in front of it; their  *)
(* number and width are kept.  Looking for bytes fails always.             *)

Hex      == Digit \cup {"a", "b", "c", "d", "e", "f", "A", "B", "C", "D", "F"}
EndOfRow == {"\n"} \cup AtEOF
Reset    == [count |-> 0, width |-> 0]
OnlyIf(some, outcome, s) == IF some THEN outcome ELSE Fail(s)

\* So many groups of hexadecimal digits, with the digits read of one.
RECURSIVE ByteGroups(_, _, _, _)
ByteGroups(l, width, gap, digits) ==
    CASE Look(l) \in Space \ {"\n"} /\ gap -> ByteGroups(Adv(l), width, TRUE, digits)
      [] Look(l) \in Space \ {"\n"} /\ ~gap /\ digits = width -> 1 + ByteGroups(Adv(l), width, TRUE, 0)
      [] Look(l) \in Hex -> ByteGroups(Adv(l), width, FALSE, digits + 1)
      [] OTHER -> 0

\* The rest of a line that is a dump, unless it is the place of a jump.
DumpSymbol(l, end, inJump) ==
    LET runes == Read(l, end)
    IN  IF inJump /\ runes[Len(runes)] = ">" THEN "instruction" ELSE "memory_dump"

\* f: the runes since the first that is no blank, whether there was one, a
\* blank behind one; the digits of what may be a byte, what is left of "(bad)"
\* if it may be that, whether "<" was the last rune, and "#".
RECURSIVE DisassemblyLine(_, _, _)
DisassemblyLine(l, f, s) ==
    LET times == f.times + IF f.text THEN 1 ELSE 0
        row   == Until(OptAny(l), {"\n"})
        fits  == times + Len(Read(l, row)) = s.count
        sharp == Look(l) = "#"
        here  == IF sharp THEN SetResultSymbol(Mark(l), "instruction") ELSE l
        blank == Look(l) \in Space
        bad   == ~blank /\ f.bad # "" /\ SubSeq(f.bad, 1, 1) = Look(l)
        byte  == IF blank THEN f.byte ELSE f.byte /\ f.digits < 8 /\ Look(l) \in Hex
        width == IF blank /\ f.byte /\ s.width = 0 THEN times ELSE s.width
        found == ByteGroups(Skip(l), f.digits, FALSE, 0) + 1
        next  == [times |-> times, text |-> f.text \/ ~blank, gap |-> f.gap \/ (blank /\ f.text),
                  byte |-> byte,
                  digits |-> IF blank \/ ~f.byte \/ f.digits >= 8 THEN f.digits
                             ELSE IF byte THEN f.digits + 1 ELSE 0,
                  bad |-> IF blank THEN f.bad ELSE IF bad THEN SubSeq(f.bad, 2, Len(f.bad)) ELSE "",
                  jump |-> Look(l) = "<", sharp |-> sharp]
    IN  IF Look(l) = "."
        THEN Emit(Mark(row), IF fits THEN DumpSymbol(l, row, f.jump) ELSE "instruction", Reset)
        ELSE IF Look(l) = "<" /\ ~f.text
        THEN OnlyIf(fits, Emit(Mark(row), "memory_dump", Reset), Reset)
        ELSE IF Look(l) \in EndOfRow
        THEN IF ~f.gap /\ times = s.count THEN EmitHere(l, "memory_dump", [s EXCEPT !.width = 0])
             ELSE OnlyIf(f.text, Emit(IF f.sharp THEN l ELSE Mark(l), "instruction", Reset), Reset)
        ELSE IF f.sharp /\ Look(l) \notin Digit \cup {"-"}
        THEN OnlyIf(f.text, Emit(l, "instruction", Reset), Reset)
        ELSE IF Look(l) = ";" THEN OnlyIf(f.text, EmitHere(l, "instruction", Reset), Reset)
        ELSE IF bad /\ Len(f.bad) = 1 THEN Fail([s EXCEPT !.count = 0])
        ELSE IF blank /\ f.byte /\ width # 0 /\ f.digits = width
        THEN Fail([count |-> IF found > s.count THEN found ELSE s.count, width |-> width])
        ELSE DisassemblyLine(Adv(here), next, [s EXCEPT !.width = width])

LineBegin == [times |-> 0, text |-> FALSE, gap |-> FALSE, byte |-> TRUE, digits |-> 0, bad |-> "(bad)",
              jump |-> FALSE, sharp |-> FALSE]

\* A name ends in front of its last "+", or of the ">" behind no number.
RECURSIVE CodeIdentifier(_, _)
CodeIdentifier(l, f) ==
    LET number == f.plus /\ Look(l) \in Digit \cup {"-"}
        f2     == [f EXCEPT !.number = @ \/ number, !.plus = number]
        next   == [f2 EXCEPT !.text = TRUE, !.plus = @ \/ Look(l) = "+", !.ending = Look(l) \in {"+", ">"}]
        marks  == Look(l) = "+" \/ (Look(l) = ">" /\ ~f2.number /\ ~f2.plus)
    IN  IF Look(l) \in EndOfRow \cup {";", "#"} \/ (f.ending /\ Look(l) \in Space)
        THEN IF f.text THEN {l} ELSE {}
        ELSE CodeIdentifier(Adv(IF marks THEN Mark(l) ELSE l), next)

ScanDisassembly(l, s, valid) ==
    IF "error_sentinel" \in valid THEN Fail(s)
    ELSE IF "code_identifier" \in valid
    THEN EmitAny(CodeIdentifier(l, [text |-> FALSE, number |-> FALSE, plus |-> FALSE, ending |-> FALSE]),
                 "code_identifier", s, s)
    ELSE IF "instruction" \in valid /\ Look(l) # ":" THEN DisassemblyLine(l, LineBegin, s)
    ELSE Fail(s)
=============================================================================
