------------------------------ MODULE MarkupPorts ------------------------------
(***************************************************************************)
(* Scanners of HTML and the template languages around it.  The state is    *)
(* the stack of the open elements: their names in capitals, "{" for an     *)
(* interpolation and "<>" for a fragment; templ keeps whether an "@" was   *)
(* seen.  A name has no end marked, so its token is empty, and the token   *)
(* of a closing by implication is, too.                                    *)
(***************************************************************************)
EXTENDS ScannerKit

TagExternals == <<"start_tag_name", "script_start_tag_name", "style_start_tag_name", "end_tag_name",
                  "erroneous_end_tag_name", "/>", "implicit_end_tag", "raw_text", "comment">>
Blade   == Port("blade", TagExternals, << >>)
Vue     == Port("vue", TagExternals \o <<"template_start_tag_name", "text_fragment",
                                         "interpolation_text">>, << >>)
Angular == Port("angular", TagExternals \o <<"interpolation_start", "interpolation_end",
                                             "control_flow_start">>, << >>)
-----------------------------------------------------------------------------
(* Elements.                                                               *)

VoidTags  == {"AREA", "BASE", "BASEFONT", "BGSOUND", "BR", "COL", "EMBED", "FRAME", "HR", "IMAGE",
              "IMG", "INPUT", "KEYGEN", "LINK", "MENUITEM", "META", "PARAM", "SOURCE", "TRACK", "WBR"}
BlockTags == {"ADDRESS", "ARTICLE", "ASIDE", "BLOCKQUOTE", "DETAILS", "DIV", "DL", "FIELDSET",
              "FIGCAPTION", "FIGURE", "FOOTER", "FORM", "H1", "H2", "H3", "H4", "H5", "H6", "HEADER",
              "HGROUP", "HR", "MAIN", "NAV", "NOSCRIPT", "OL", "P", "PRE", "SCRIPT", "SECTION",
              "TABLE", "TEMPLATE", "UL"}
KnownTags == VoidTags \cup BlockTags \cup
             {"A", "ABBR", "B", "BODY", "BUTTON", "CAPTION", "CODE", "COLGROUP", "DD", "DT", "EM",
              "HEAD", "HTML", "I", "IFRAME", "LI", "OPTGROUP", "OPTION", "RB", "RP", "RT", "RUBY", "S",
              "SELECT", "SMALL", "SPAN", "STRONG", "STYLE", "SUMMARY", "TBODY", "TD", "TFOOT", "TH",
              "THEAD", "TITLE", "TR"}
WholePage == {"HTML", "HEAD", "BODY"}
TypeOf(tag) == IF tag \in KnownTags \cup {"{"} THEN tag ELSE "custom"

CanContain(parent, child) ==
    CASE parent = "LI"                -> child # "LI"
      [] parent \in {"DT", "DD"}      -> child \notin {"DT", "DD"}
      [] parent = "P"                 -> child \notin BlockTags
      [] parent = "COLGROUP"          -> child = "COL"
      [] parent \in {"RB", "RT", "RP"} -> child \notin {"RB", "RT", "RP"}
      [] parent = "OPTGROUP"          -> child # "OPTGROUP"
      [] parent = "TR"                -> child # "TR"
      [] parent \in {"TD", "TH"}      -> child \notin {"TD", "TH", "TR"}
      [] OTHER                        -> TRUE

TagRune == AsciiLetter \cup Digit \cup {"-", ":", "."}
PastTagName(l) == While(l, TagRune)
RECURSIVE TagName(_, _)
TagName(l, end) == IF l.at.pos >= end.at.pos THEN "" ELSE Upper(Look(l)) \o TagName(Adv(l), end)
-----------------------------------------------------------------------------
(* What the languages share.                                               *)

\* Behind "<!": to the end of the comment, in a set of at most one.
RECURSIVE HtmlCommentEnd(_, _)
HtmlCommentEnd(l, dashes) ==
    CASE Look(l) = EndOfText        -> {}
      [] Look(l) = "-"              -> HtmlCommentEnd(Adv(l), dashes + 1)
      [] Look(l) = ">" /\ dashes >= 2 -> {Mark(Adv(l))}
      [] OTHER                      -> HtmlCommentEnd(Adv(l), 0)
TagComment(l, tags) ==
    EmitAny(IF Follows(l, "--") THEN HtmlCommentEnd(Along(l, "--"), 0) ELSE {}, "comment", tags, tags)

\* To the end tag of a script, or of anything else that holds raw text.  A
\* rune that breaks off a match may not begin one.
RECURSIVE RawTextEnd(_, _, _)
RawTextEnd(l, word, rest) ==
    IF Look(l) = EndOfText \/ rest = "" THEN l
    ELSE IF Upper(Look(l)) = SubSeq(rest, 1, 1) THEN RawTextEnd(Adv(l), word, SubSeq(rest, 2, Len(rest)))
    ELSE RawTextEnd(Mark(Adv(l)), word, word)
HtmlRawText(l, tags) ==
    LET word == IF OnTop(tags, {"SCRIPT"}) THEN "</SCRIPT" ELSE "</STYLE"
    IN  IF tags = << >> THEN Fail(tags) ELSE Emit(RawTextEnd(Mark(l), word, word), "raw_text", tags)

\* Behind "<", or at the end: whether what comes next closes the top element.
ImplicitEndTag(l, tags) ==
    LET closing == Look(l) = "/"
        name    == IF closing THEN Adv(l) ELSE l
        end     == PastTagName(name)
        next    == TagName(name, end)
        Closed(at) == Emit(at, "implicit_end_tag", Front(tags))
    IN  IF ~closing /\ OnTop(tags, VoidTags) THEN Closed(l)
        ELSE IF \/ next = "" /\ Look(end) # EndOfText
                \/ tags = << >>
                \/ /\ closing
                   /\ OnTop(tags, {next}) \/ \A i \in DOMAIN tags : TypeOf(tags[i]) # TypeOf(next)
                \/ /\ ~closing /\ CanContain(TopOf(tags), next)
                   /\ ~OnTop(tags, WholePage) \/ Look(end) # EndOfText
        THEN Fail(tags) ELSE Closed(end)

SelfClosingDelim(l, tags) ==
    LET past == Adv(l)
    IN  IF Look(past) # ">" THEN Fail(tags)
        ELSE IF tags = << >> THEN EmitNothing(Adv(past), tags)
        ELSE Emit(Adv(past), "/>", Front(tags))

StartSymbol(name, special) ==
    CASE name = "SCRIPT"                   -> "script_start_tag_name"
      [] name = "STYLE"                    -> "style_start_tag_name"
      [] name = "TEMPLATE" /\ "template_start_tag_name" \in special -> "template_start_tag_name"
      [] OTHER                             -> "start_tag_name"
StartTagName(l, tags, special) ==
    LET name == TagName(l, PastTagName(l))
    IN  IF name = "" THEN Fail(tags)
        ELSE Emit(PastTagName(l), StartSymbol(name, special), Append(tags, name))
EndTagName(l, tags) ==
    LET name == TagName(l, PastTagName(l))
    IN  IF name = "" THEN Fail(tags)
        ELSE IF OnTop(tags, {name}) THEN Emit(PastTagName(l), "end_tag_name", Front(tags))
        ELSE Emit(PastTagName(l), "erroneous_end_tag_name", tags)

TagNames == {"start_tag_name", "end_tag_name"}
InRawText(valid) == "raw_text" \in valid /\ valid \cap TagNames = {}

\* At "<", "/", the end or a name: what the languages have in common.
TagPart(l, tags, valid, special) ==
    LET past == Adv(Mark(l))
    IN  CASE Look(l) = "<" /\ Look(past) = "!" -> TagComment(Adv(past), tags)
          [] Look(l) = "<" /\ Look(past) # "!" /\ "implicit_end_tag" \in valid -> ImplicitEndTag(past, tags)
          [] Look(l) = EndOfText /\ "implicit_end_tag" \in valid -> ImplicitEndTag(l, tags)
          [] Look(l) = "/" /\ "/>" \in valid -> SelfClosingDelim(l, tags)
          [] Look(l) \notin {"<", "/"} \cup AtEOF /\ "raw_text" \notin valid /\ valid \cap TagNames # {} ->
               IF "start_tag_name" \in valid THEN StartTagName(l, tags, special) ELSE EndTagName(l, tags)
          [] OTHER -> Fail(tags)

ScanBlade(l, tags, valid) ==
    IF InRawText(valid) THEN HtmlRawText(l, tags) ELSE TagPart(SkipWhile(l, Space), tags, valid, {})
-----------------------------------------------------------------------------
(* Vue: text up to an element or an interpolation, and in one.             *)

RECURSIVE VueText(_, _, _, _)
VueText(l, tags, valid, some) ==
    LET past   == Adv(Mark(l))
        gap    == IF some THEN While(Mark(l), Space) ELSE SkipWhile(Mark(l), Space)
        inside == "interpolation_text" \in valid
        Ended(at, symbol) == IF some THEN Emit(at, symbol, tags) ELSE Fail(tags)
    IN  CASE Look(l) = EndOfText -> Fail(tags)
          [] Look(l) = "<" -> IF Look(past) \in AsciiLetter \cup {"!", "?", "/"} THEN Ended(past, "text_fragment")
                              ELSE VueText(past, tags, valid, TRUE)
          [] Look(l) = "{" -> IF Look(past) = "{" THEN Ended(past, "text_fragment")
                              ELSE VueText(past, tags, valid, TRUE)
          [] Look(l) = "}" -> IF ~inside THEN VueText(Adv(l), tags, valid, TRUE)
                              ELSE IF Look(past) = "}" THEN Ended(past, "interpolation_text")
                              ELSE VueText(past, tags, valid, some)
          [] Look(l) = "\n" -> IF "text_fragment" \notin valid THEN VueText(Adv(l), tags, valid, some)
                               ELSE IF Look(gap) \in {"<", ">"} THEN Ended(gap, "text_fragment")
                               ELSE VueText(gap, tags, valid, some)
          [] OTHER -> VueText(Adv(l), tags, valid, TRUE)

ScanVue(l, tags, valid) ==
    IF /\ ~({"start_tag_name", "raw_text"} \subseteq valid) /\ Look(l) # "<"
       /\ valid \cap {"text_fragment", "interpolation_text"} # {}
    THEN VueText(IF "comment" \in valid THEN l ELSE SkipWhile(l, Space), tags, valid, FALSE)
    ELSE IF InRawText(valid) THEN HtmlRawText(l, tags)
    ELSE TagPart(SkipWhile(l, Space), tags, valid, {"template_start_tag_name"})
-----------------------------------------------------------------------------
(* Angular: interpolations are on the stack, too.                          *)

ScanAngular(l, tags, valid) ==
    LET begin == SkipWhile(l, Space)
        twice == Ahead(begin, 2)
        Two(symbol, rune) == symbol \in valid /\ Look(Adv(begin)) = rune
    IN  CASE InRawText(valid) -> HtmlRawText(l, tags)
          [] ~InRawText(valid) /\ Look(begin) = "{" ->
               IF Two("interpolation_start", "{")
               THEN EmitHere(twice, "interpolation_start", Append(tags, "{")) ELSE Fail(tags)
          [] ~InRawText(valid) /\ Look(begin) = "}" ->
               IF Two("interpolation_end", "}") /\ OnTop(tags, {"{"})
               THEN EmitHere(twice, "interpolation_end", Front(tags)) ELSE Fail(tags)
          [] ~InRawText(valid) /\ Look(begin) = "@" ->
               IF "control_flow_start" \in valid THEN EmitHere(Adv(begin), "control_flow_start", tags)
               ELSE Fail(tags)
          [] OTHER -> TagPart(begin, tags, valid, {})
-----------------------------------------------------------------------------
Svelte  == Port("svelte", TagExternals \o <<"svelte_raw_text", "svelte_raw_text_each",
                                            "snippet_arguments", "@", "#", "/", ":">>, << >>)
Astro   == Port("astro", TagExternals \o <<"interpolation_start", "interpolation_end",
                    "frontmatter_js_block", "attribute_js_expr", "attribute_backtick_string",
                    "permissible_text", "fragment_tag_delim">>, << >>)
Templ   == Port("templ", <<"css_property_value", "script_block_text", "switch_element_text",
                           "element_text">>, FALSE)

JsQuotes == {"'", "\"", "BQ"}
-----------------------------------------------------------------------------
(* JavaScript in Svelte: past comments, strings and templates, closed or   *)
(* not.                                                                    *)

RECURSIVE BlockCommentEnd(_), QuotedEnd(_, _), TemplateEnd(_), BracesEnd(_, _)
\* Behind "/*".
BlockCommentEnd(l) ==
    LET past == Adv(l)
    IN  CASE Look(l) = EndOfText -> l
          [] Look(l) = "*" -> IF Look(past) = "/" THEN Adv(past) ELSE BlockCommentEnd(past)
          [] OTHER         -> BlockCommentEnd(past)
QuotedEnd(l, quote) ==
    CASE Look(l) = EndOfText -> l
      [] Look(l) = quote     -> Adv(l)
      [] Look(l) = "\\"      -> QuotedEnd(Ahead(l, 2), quote)
      [] OTHER               -> QuotedEnd(Adv(l), quote)
TemplateEnd(l) ==
    LET past == Adv(l)
    IN  CASE Look(l) = EndOfText -> l
          [] Look(l) = "BQ"      -> past
          [] Look(l) = "$"       -> TemplateEnd(IF Look(past) = "{" THEN BracesEnd(Adv(past), 0) ELSE past)
          [] Look(l) = "\\"      -> TemplateEnd(Adv(past))
          [] OTHER               -> TemplateEnd(past)
BracesEnd(l, level) ==
    CASE Look(l) = EndOfText -> l
      [] Look(l) = "BQ"      -> BracesEnd(TemplateEnd(Adv(l)), level)
      [] Look(l) = "\\"      -> BracesEnd(Ahead(l, 2), level)
      [] Look(l) \in {"'", "\""} -> BracesEnd(QuotedEnd(Adv(l), Look(l)), level)
      [] Look(l) = "{"       -> BracesEnd(Adv(l), level + 1)
      [] Look(l) = "}"       -> IF level = 0 THEN Adv(l) ELSE BracesEnd(Adv(l), level - 1)
      [] OTHER               -> BracesEnd(Adv(l), level)

\* One piece of an expression that is no bracket.
ExpressionPiece(l) ==
    LET past == Adv(l)
    IN  CASE Look(l) = "/" /\ Look(past) = "*" -> BlockCommentEnd(Adv(past))
          [] Look(l) = "/" /\ Look(past) = "/" -> OptAny(Until(Adv(past), Breaks))
          [] Look(l) \in {"'", "\""} -> QuotedEnd(past, Look(l))
          [] Look(l) = "BQ" -> TemplateEnd(past)
          [] OTHER -> past

\* Up to a bracket that closes nothing, or a word "as".
RECURSIVE SvelteEnd(_, _, _, _, _)
SvelteEnd(l, open, close, isEach, level) ==
    LET past == Adv(Mark(l))
    IN  CASE Look(l) = EndOfText -> {}
          [] Look(l) = close -> IF level = 0 THEN {Mark(l)} ELSE SvelteEnd(Adv(l), open, close, isEach, level - 1)
          [] Look(l) = open  -> SvelteEnd(Adv(l), open, close, isEach, level + 1)
          [] Look(l) = "a" /\ isEach ->
               IF Look(past) # "s" THEN SvelteEnd(past, open, close, isEach, level)
               ELSE IF Look(Adv(past)) \in Space THEN {Adv(past)}
               ELSE SvelteEnd(Adv(past), open, close, isEach, level)
          [] OTHER -> SvelteEnd(ExpressionPiece(l), open, close, isEach, level)

\* No text is only empty when nothing has been read.  A comment at the
\* beginning is none, nor is a "/" that a token may begin with.
SvelteRawText(l, tags, valid) ==
    LET begin  == SkipWhile(l, Space)
        slash  == Look(begin) = "/" /\ "/" \in valid
        isEach == "svelte_raw_text_each" \in valid
        first  == IF slash THEN Adv(begin) ELSE begin
        ends   == SvelteEnd(first, "{", "}", isEach, 0)
    IN  IF Look(begin) \in {"@", "#", ":"} \/ (slash /\ Look(first) # "/") THEN Fail(tags)
        ELSE EmitAny({e \in ends : Went(begin, e)},
                     IF isEach THEN "svelte_raw_text_each" ELSE "svelte_raw_text", tags, tags)
SvelteArguments(l, tags) ==
    LET begin == SkipWhile(l, Space)
    IN  EmitAny({e \in SvelteEnd(begin, "(", ")", FALSE, 0) : Went(begin, e)}, "snippet_arguments", tags, tags)

ScanSvelte(l, tags, valid) ==
    LET begin == SkipWhile(l, Space)
    IN  IF InRawText(valid) THEN HtmlRawText(l, tags)
        ELSE IF "snippet_arguments" \in valid THEN SvelteArguments(l, tags)
        ELSE IF valid \cap {"svelte_raw_text", "svelte_raw_text_each"} # {} THEN SvelteRawText(l, tags, valid)
        ELSE IF Look(begin) # "{" THEN TagPart(begin, tags, valid, {})
        ELSE IF "implicit_end_tag" \in valid THEN ImplicitEndTag(begin, tags)
        ELSE Fail(tags)
-----------------------------------------------------------------------------
(* JavaScript in Astro: the same, read in other ways.  "/*/" is a comment. *)

RECURSIVE AstroString(_, _), AstroTemplate(_), AstroBraces(_, _, _), Frontmatter(_, _, _)
CommentAt(l) == CASE Look(Adv(l)) = "/" -> "line" [] Look(Adv(l)) = "*" -> "block" [] OTHER -> "none"
Commented(l, comment) ==
    LET past == Adv(l)
    IN  CASE comment = "line" -> [lexer |-> past, comment |-> IF Look(l) = "\n" THEN "none" ELSE comment]
          [] comment = "block" /\ Look(l) = "*" /\ Look(past) = "/" -> [lexer |-> Adv(past), comment |-> "none"]
          [] OTHER -> [lexer |-> past, comment |-> comment]

AstroString(l, quote) ==
    CASE Look(l) = EndOfText -> l
      [] Look(l) = quote     -> Adv(l)
      [] Look(l) = "\\"      -> AstroString(Ahead(l, 2), quote)
      [] OTHER               -> AstroString(Adv(l), quote)
AstroTemplate(l) ==
    CASE Look(l) = EndOfText -> l
      [] Look(l) = "BQ"      -> Adv(l)
      [] Look(l) = "$"       -> AstroTemplate(IF Look(Adv(l)) = "{"
                                              THEN Adv(AstroBraces(Ahead(l, 2), "none", 0)) ELSE Adv(l))
      [] OTHER               -> AstroTemplate(Adv(l))
PastJsString(l) == IF Look(l) = "BQ" THEN AstroTemplate(Adv(l)) ELSE AstroString(Adv(l), Look(l))

AstroBraces(l, comment, level) ==
    LET here == Mark(l)
        rest == Commented(l, comment)
    IN  IF Look(l) = EndOfText THEN l
        ELSE IF comment # "none" THEN AstroBraces(rest.lexer, rest.comment, level)
        ELSE IF Look(l) = "}" /\ level = 0 THEN here
        ELSE IF Look(l) \in JsQuotes THEN AstroBraces(PastJsString(here), "none", level)
        ELSE IF Look(l) = "/" THEN AstroBraces(Adv(here), CommentAt(l), level)
        ELSE AstroBraces(Adv(here), "none",
                         level + CASE Look(l) = "{" -> 1 [] Look(l) = "}" -> -1 [] OTHER -> 0)

\* Up to the "---" that begins a line: so much of "\n---" has been matched.
Fence == <<"\n", "-", "-", "-">>
Frontmatter(l, matched, comment) ==
    LET same  == Look(l) = Fence[matched + 1]
        next  == IF same THEN matched + 1 ELSE IF Look(l) = "\n" THEN 1 ELSE 0
        here  == IF same /\ matched > 0 THEN l ELSE Mark(l)
        over  == comment = "line" /\ Look(l) = "\n"
        rest  == Commented(IF over THEN Mark(l) ELSE l, comment)
    IN  IF Look(l) = EndOfText THEN l
        ELSE IF comment # "none"
        THEN Frontmatter(rest.lexer, IF over THEN 1 ELSE IF rest.comment = "none" THEN 0 ELSE matched, rest.comment)
        ELSE IF next = Len(Fence) THEN here
        ELSE IF Look(l) \in JsQuotes THEN Frontmatter(PastJsString(here), next, "none")
        ELSE Frontmatter(Adv(here), next, IF Look(l) = "/" THEN CommentAt(l) ELSE "none")

RECURSIVE StarComment(_), PermissibleText(_, _)
\* From the "*" of a comment's beginning on.
StarComment(l) ==
    LET past == Adv(l)
    IN  IF Look(l) = EndOfText THEN l
        ELSE IF Look(past) # "*" THEN StarComment(past)
        ELSE IF Look(Adv(past)) = "/" THEN Ahead(past, 2) ELSE StarComment(Adv(past))
\* Text, and a set of at most one lexer: where it ends, if there is any.
PermissibleText(l, found) ==
    LET past == Adv(l)
        Further(at) == PermissibleText(Mark(at), {Mark(at)})
    IN  CASE Look(l) \in {"{", "}"} \cup AtEOF -> found
          [] Look(l) \in JsQuotes -> Further(PastJsString(l))
          [] Look(l) = "/" -> Further(CASE Look(past) = "/" -> Until(past, Breaks)
                                        [] Look(past) = "*" -> StarComment(past) [] OTHER -> past)
          [] Look(l) = "<" -> IF Look(past) \in AsciiLetter \cup {"/", "?", ">"} THEN found ELSE Further(past)
          [] OTHER -> Further(past)

AstroStartTag(l, tags) ==
    IF Look(l) = ">" THEN Emit(Adv(l), "fragment_tag_delim", Append(tags, "<>"))
    ELSE StartTagName(l, tags, {})
AstroEndTag(l, tags) ==
    CASE Look(l) = ">" /\ OnTop(tags, {"<>"})  -> Emit(Adv(l), "fragment_tag_delim", Front(tags))
      [] Look(l) = ">" /\ ~OnTop(tags, {"<>"}) -> Emit(Adv(l), "erroneous_end_tag_name", tags)
      [] OTHER -> EndTagName(l, tags)

\* What is not a part of markup is text, where text may come.
AstroPart(l, tags, valid) ==
    LET past  == Adv(Mark(l))
        text  == "permissible_text" \in valid
        begin == IF Look(l) = "<" THEN past ELSE l
        close == "implicit_end_tag" \in valid
        names == "raw_text" \notin valid /\ valid \cap TagNames # {}
        Text  == EmitAny(IF text THEN PermissibleText(begin, {}) ELSE {}, "permissible_text", tags, tags)
    IN  CASE Look(l) = "<" /\ (Look(past) = "!" \/ close) -> TagPart(l, tags, valid, {})
          [] Look(l) = "<" /\ Look(past) # "!" /\ ~close ->
               IF Look(past) \in AsciiLetter \cup {"/", "?", ">"} THEN Fail(tags) ELSE Text
          [] Look(l) = EndOfText -> TagPart(l, tags, valid, {})
          [] Look(l) = "/" -> IF "/>" \in valid THEN SelfClosingDelim(l, tags) ELSE Text
          [] Look(l) = "{" -> IF "interpolation_start" \in valid
                              THEN Emit(Adv(l), "interpolation_start", Append(tags, "{")) ELSE Text
          [] Look(l) = "}" -> IF close THEN ImplicitEndTag(l, tags)
                              ELSE IF "interpolation_end" \in valid /\ OnTop(tags, {"{"})
                              THEN Emit(Adv(l), "interpolation_end", Front(tags)) ELSE Text
          [] Look(l) = "BQ" -> IF "attribute_backtick_string" \in valid
                               THEN EmitHere(AstroTemplate(Adv(l)), "attribute_backtick_string", tags) ELSE Text
          [] OTHER -> IF ~names THEN Text
                      ELSE IF "start_tag_name" \in valid THEN AstroStartTag(l, tags) ELSE AstroEndTag(l, tags)

ScanAstro(l, tags, valid) ==
    IF "frontmatter_js_block" \in valid /\ tags = << >>
    THEN Emit(Frontmatter(Mark(l), 1, "none"), "frontmatter_js_block", tags)
    ELSE IF InRawText(valid) THEN HtmlRawText(l, tags)
    ELSE IF "attribute_js_expr" \in valid
    THEN Emit(AstroBraces(Mark(l), "none", 0), "attribute_js_expr", tags)
    ELSE IF "permissible_text" \notin valid THEN AstroPart(SkipWhile(l, Space), tags, valid)
    ELSE IF Look(l) \in Space
    THEN EmitAny(PermissibleText(l, {}), "permissible_text", tags, tags)
    ELSE AstroPart(l, tags, valid)
-----------------------------------------------------------------------------
(* templ: text is told from statements by its first runes, which are read  *)
(* before they are compared.  An "@" is only remembered.                   *)

TemplKeywords       == {"//", "/*", "if ", "else ", "for ", "switch "}
TemplSwitchKeywords == {"case ", "default:"}
TextTerminators(saw) == {"<", "{", "}", "\n"} \cup IF saw THEN {".", "(", ")", "["} ELSE {}

ElementText(l, saw, keywords, symbol) ==
    LET compared == {OptAny(Along(l, word)) : word \in keywords}
        buffered == CHOOSE x \in compared : \A y \in compared : y.at.pos <= x.at.pos
    IN  IF Look(l) = EndOfText \/ \E word \in keywords : Follows(l, word) THEN Fail(saw)
        ELSE IF Look(l) = "@" THEN Fail(TRUE)
        ELSE IF \E i \in DOMAIN Read(l, buffered) : Read(l, buffered)[i] \in TextTerminators(saw) THEN Fail(saw)
        ELSE EmitHere(Until(buffered, TextTerminators(saw)), symbol, FALSE)

RECURSIVE ScriptBlock(_, _)
ScriptBlock(l, braces) ==
    IF Look(l) = EndOfText \/ (Look(l) = "}" /\ braces = 1) THEN l
    ELSE ScriptBlock(Adv(l), braces + CASE Look(l) = "{" -> 1 [] Look(l) = "}" -> -1 [] OTHER -> 0)

ScanTempl(l, saw, valid) ==
    LET begin  == SkipWhile(l, Space)
        value  == Until(begin, {";"})
        script == ScriptBlock(begin, 1)
    IN  IF "css_property_value" \in valid
        THEN IF Look(begin) = "{" \/ Look(value) # ";" THEN Fail(saw) ELSE Emit(value, "css_property_value", saw)
        ELSE IF "script_block_text" \in valid
        THEN IF Went(begin, script) THEN EmitHere(script, "script_block_text", saw) ELSE Fail(saw)
        ELSE IF "switch_element_text" \in valid
        THEN ElementText(begin, saw, TemplKeywords \cup TemplSwitchKeywords, "switch_element_text")
        ELSE IF "element_text" \in valid THEN ElementText(begin, saw, TemplKeywords, "element_text")
        ELSE Fail(saw)
=============================================================================
