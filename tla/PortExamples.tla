------------------------------ MODULE PortExamples ------------------------------
(***************************************************************************)
(* What the ported scanners are run on: for each, the sets of symbols that *)
(* may come in the states of a parser, and short texts.                    *)
(***************************************************************************)
EXTENDS AttachedScanners

AsText(word) == [i \in 1 .. Len(word) |-> SubSeq(word, i, i)]
\* An apostrophe stands for a backtick.
Ticked(word) == [i \in 1 .. Len(word) |->
                    IF SubSeq(word, i, i) = "'" THEN "BQ" ELSE SubSeq(word, i, i)]
UpTo(runes, n) == UNION {[1 .. k -> {AsText(runes)[i] : i \in 1 .. Len(runes)}] : k \in 0 .. n}
Written(words)   == {AsText(w) : w \in words}

\* A parser with a state for each symbol, and one that is recovering.
EachAlone(port) == [s \in SymbolsIn(port) \cup {"recovering"} |->
                       IF s = "recovering" THEN SymbolsIn(port) ELSE {s}]
AnyOf(port, sets) == [s \in DOMAIN sets \cup {"recovering"} |->
                       IF s = "recovering" THEN SymbolsIn(port) ELSE sets[s]]

Example(port, expected, texts) == [port |-> port, expected |-> expected, texts |-> texts]
-----------------------------------------------------------------------------
Macros == {"hashfn", "quote", "quasi_quote", "unquote"}

ScriptStates(port) ==
    LET semi == {s \in SymbolsIn(port) : s \in {"automatic_semicolon", "function_signature_automatic_semicolon"}}
    IN  AnyOf(port, [statement |-> {"automatic_semicolon", "html_comment"}, element |-> {"jsx_text"},
                     function |-> semi, operator |-> {"automatic_semicolon", "ternary_qmark", "||"},
                     template |-> {"template_chars"}, begin |-> {"html_comment"}])
ScriptTexts == UpTo("\n }a", 2) \cup
    Written({"\n+?", "\n++", "\n!=", "\n!a", "\nin", "\nin ", "\nina", "\ninstanceof", "\ninstanceof ",
             "\ninstanceofa", "\n//a\n?", "\n/*a**/?", "\n/a", "\n(", "}:", " } ;", "?.1", " ?a", "?:", "??",
             "<!--a", "-->", "<!a", "a$b${", "\n a", "a\n <", "a&"}) \cup {Ticked("a'"), Ticked("\n'")}

StatelessExamples == {
    Example(Uxntal, EachAlone(Uxntal), UpTo("()a", 3) \cup Written({"((a)b)", "(()(", "( ( a ) )"})),
    Example(Dhall, EachAlone(Dhall), UpTo("{-}", 3) \cup Written({"a-}", "{-a-}-}", "{{-}--}a", "--}-}"})),
    Example(Wgsl, EachAlone(Wgsl), UpTo("/*", 3) \cup Written({"/*a*/", "/*/**/*/", "/*/*/a", "/**//", "/***/*/"})),
    Example(Tablegen, EachAlone(Tablegen), Written({"/*a/*b*/*/c", "/*/**/", "/a"})),
    Example(Wolfram, EachAlone(Wolfram),
            UpTo("(*)", 3) \cup {AsText(" ") \o w : w \in UpTo("(*)", 2)}
            \cup {<<"(", "*", "a", "(", "*", "*", ")", "b", "*", ")", "c">>, <<"(", "*", "(", ")">>}),
    Example(Properties, EachAlone(Properties), UpTo("a\n", 1)),
    Example(Kconfig, EachAlone(Kconfig), UpTo("a\r\n", 2)),
    Example(GodotResource, EachAlone(GodotResource),
            UpTo("\"\\", 3) \cup Written({"\"a\nb\"c", "\"\\\"\""})),
    Example(Gn, EachAlone(Gn), UpTo("$\"", 2) \cup Written({"a$${", "a${b", "a\\\"", "ab"})),
    Example(Squirrel, EachAlone(Squirrel), UpTo("@\"", 3) \cup Written({"@\"a\"\"b\"c", "@\"\"\"\""})),
    Example(Jsdoc, EachAlone(Jsdoc), UpTo("{}", 3) \cup Written({"a}b", "{a}b}c", "a\n}"})),
    Example(Yuck, EachAlone(Yuck), UpTo("$\"", 2) \cup {Ticked("a$b'c"), Ticked("a${'")}
            \cup Written({"a$$\\", "a\"b'", "a"})),
    Example(Racket, EachAlone(Racket), UpTo("a\n", 3) \cup Written({"a\nb\na\nb", "ab\n\nab", "a\naa\n"})),
    Example(Editorconfig, EachAlone(Editorconfig),
            UpTo("-1.", 3) \cup Written({"-10..1", "1..0", "1.1.."})),
    Example(Gitcommit, EachAlone(Gitcommit),
            UpTo("a:!", 2) \cup Written({"a(b): ", "a(b)!:", "a():a", "(a: b", "a (b): ", "ab"})),
    Example(Janet, EachAlone(Janet), {Ticked(w) : w \in {"'a'", "''a'b''", " @''a, ", "''", "@a"}}),
    Example(Gleam, EachAlone(Gleam), UpTo("a\"\n", 2) \cup Written({"a\\b", " ab\nc"})),
    Example(Comment, EachAlone(Comment), UpTo("a:(", 2) \cup Written({"ab:", "a-b(c", "1_.:", "a E:"})),
    Example(Cooklang, EachAlone(Cooklang), UpTo("\r\na", 3)),
    Example(Tcl, EachAlone(Tcl), UpTo("a )}", 1)),
    Example(Powershell, EachAlone(Powershell), UpTo(" \n;a", 2) \cup Written({" \t}a", "  )"})),
    Example(Less, EachAlone(Less), UpTo(" .a", 2) \cup Written({" :a{}", " :a;{", " : {", " *a"})),
    Example(Scss, EachAlone(Scss), Written({" a", " :a{}", " :a}{", "\n#a", "a b", " *a"})),
    Example(Fish, EachAlone(Fish), UpTo("{ a", 2) \cup Written({"[", "{;", "a[", ")", " {\n", "}{"})),
    Example(Fennel,
            AnyOf(Fennel, [form |-> Macros, start |-> Macros \cup {"shebang"},
                           string |-> Macros \cup {"colon_string_start_mark"}]),
            UpTo("# a", 2) \cup Written({"#!a\nb", " 'a", "')", ",a", "#(a"}) \cup {Ticked(" 'a")}),
    Example(Kdl, EachAlone(Kdl), Written({"", "a", "r#\"a\"\"#b", "r\"", "/*/**/*/a", "/**", "r##\"#\"##", "//"})),
    Example(Ron, AnyOf(Ron, [value |-> {"raw_string", "float", "block_comment"}, string |-> {"string_content"}]),
            UpTo("1.e", 3) \cup Written({"1.0e+1f1", "1e-", "1.a", "1.f", "br#\"\"#", "bx", " /*a/**/*/1", "a\\b", "r\"a"})),
    Example(DLang, EachAlone(DLang),
            UpTo("/+", 3) \cup Written({"/+a/++/+/b", "/+/", "q\"(a(b))\"c", "q\"a\n1\na\" ", "q\"a\n\na\"", "q\"<>>", "qa"})),
    Example(Dart, AnyOf(Dart, [single |-> {"template_chars_single_single"}, code |-> {"block_comment"},
                               double |-> {"template_chars_double", "template_chars_single"},
                               raw |-> {"template_chars_double", "template_chars_raw_slash"}]),
            UpTo("a\n\\", 2) \cup Written({"a$b", "a'", " /**/a", "/*a/*b*/*/", "/***/", "/*/", "ab\nc\""})),
    Example(Julia, AnyOf(Julia, [call |-> {"immediate_paren", "immediate_string_start"}, rest |-> {"block_comment_rest"},
                                 string |-> {"content_str_1"}, raw |-> {"content_str_1_raw"},
                                 long |-> {"content_str_3"}, command |-> {"content_cmd_3_raw"}]),
            UpTo("\"\\a", 2) \cup Written({"a\"\"b\"\"\"", "\"\"\"", "(a", "a#=b=#=#c", "a$b", "a\\\"\""})
            \cup {Ticked("a''b'''"), Ticked("'''")}),
    Example(Javascript, ScriptStates(Javascript), ScriptTexts),
    Example(Typescript, ScriptStates(Typescript), ScriptTexts \cup Written({"\n{", "a\n{"})),
    Example(Tsx, ScriptStates(Tsx), Written({"\n{", "\n/", "a b<"}))}
-----------------------------------------------------------------------------
StringStates == [open |-> {"string_start", "block_comment_start"},
                 string |-> {"string_content", "string_end"},
                 comment |-> {"block_comment_content", "block_comment_end"}]
RawStates == [delimiter |-> {"raw_string_delimiter"}, content |-> {"raw_string_content"}]
RawTexts  == Written({"a(b)c)a\"", "ab(c", "a)(", "E(a)E\"", "a b(", "(a)", "a()a", ")aa\"a\""})

StatefulExamples == {
    Example(Cpp, AnyOf(Cpp, RawStates), RawTexts \cup {<<"E1", "E2", "(", "a", ")", "E1", "E2", "\"">>}),
    Example(Cuda, RawStates, Written({"a(b)a\""})),
    Example(Arduino, RawStates, Written({"a(b)a\""})),
    Example(Hlsl, RawStates, Written({"a(b)a\""})),
    Example(Haxe, AnyOf(Haxe, [statement |-> {"lookback_semicolon"}, end |-> {"closing_brace_marker"},
                               next |-> {"closing_brace_unmarker", "closing_brace_marker"}]),
            Written({"};", " }a", "a}\n}", ";", " \n"})),
    Example(Bicep, AnyOf(Bicep, [key |-> {"external_asterisk"}, string |-> {"multiline_string_content"}]),
            Written({" *:", "*a", "a'''''b", "'''''", "a''b'''", "a'a'''"})),
    Example(Nushell, AnyOf(Nushell, [begin |-> {"raw_string_begin"}, content |-> {"raw_string_content"},
                                     end |-> {"raw_string_end"}]),
            Written({" r#'a'#b", "r##'a#'##", "r'a'", "r#'#'#", "r#a", "r####'a'", "'a'#"})),
    Example(Luau, AnyOf(Luau, StringStates),
            Written({"[=[a]]]=]b", "[[]]", "--[[a]]", "\"a\\z \n\"", "\"\\\"a\"", "'a\nb'", "[=a", "--a", "[--[["}))}
LayoutStates == [line |-> {"newline"}, header |-> {"indent", "newline"}, block |-> {"dedent"}]

LayoutExamples == {
    Example(Caddy, AnyOf(Caddy, LayoutStates), Written({"a\n  a\n\ta", "  a\na\n"})),
    Example(Nginx, AnyOf(Nginx, LayoutStates), Written({"\n a\n"})),
    Example(Pug, AnyOf(Pug, LayoutStates), Written({"\n \ta\n\r  a", " a\n"})),
    Example(Firrtl, AnyOf(Firrtl, LayoutStates), Written({"\n #a\n  a\n a", " \\\r\na\n \\a", "#"})),
    Example(Agda, AnyOf(Agda, LayoutStates),
            Written({"\n --a\n  a", "\n{-{-a-}-} -a", "-a\n", "{a", "\n{-{-{-}-", " a\n"})),
    Example(Earthfile, EachAlone(Earthfile), Written({"\n  a\n b\na", " \r", " a\n"})),
    Example(Just, AnyOf(Just, [line |-> {"newline"}, recipe |-> {"indent"}, body |-> {"dedent", "newline", "text"},
                               text |-> {"text"}]),
            Written({"\n  a{{{b}}c", " \\\na", "#!a", "a{{b\nc", "#ab", "{a", "\r-", "{{a}}", "{{}}a", "a\n\na"})),
    Example(Cairo, AnyOf(Cairo, [code |-> {"hint_start"}, hint |-> {"python_code_line"}]),
            Written({"%{\n  a\n b%}", "'a'#%\n", "\"\"\"%\n'''%}", "  'a%}", "\n %}", "\"\"\"a\"a", "#a"}))}


CssStates == [rule |-> {"descendant_operator", ":"}, selector |-> {":"}, list |-> {"descendant_operator"}]
LiteralExamples == {
    Example(Erlang, AnyOf(Erlang, [string |-> {"tq_string"}, any |-> {"tq_string", "tq_sigil_string"}]),
            Written({" \"\"\" \na\"\n \"\"\"a", "~s\"\"\"\"\n\"\"\"\n\"\"\"\"", "~\"\"\"\n\n\"\"\"", "~a\"\"\"", "\"\"", "\"\"\"a\n",
                     "\"\"\"\na"})),
    Example(Cue, EachAlone(Cue),
            Written({"a\"b\"\"c\"\"\"", "a\\(b", "\\a'#", "a\\#('''#", "a\"\"\"#", "\\\"#a'", "'a'''", "a\"#b"})),
    Example(Nix, EachAlone(Nix),
            Written({"a$b${", "\\$", "\\a", "$\"a", "a''", "''$a", "''\\$", "''a", "'a$'b''", "a/b$c", " ./a", "/${", "a+1", "//a b"})),
    Example(Foam, AnyOf(Foam, [word |-> {"identifier"}, value |-> {"boolean", "identifier"}, end |-> {"eof"}]),
            Written({" on", "off;", "one", "t(a b)c ", "true", "fal)se", "a)", "_a\"", "1"})),
    Example(Dtd, EachAlone(Dtd),
            Written({"xml", "xmla ", "xm-l ", "xa.b ", "aml>", "Xm ", "a?b?>", "a?> \n", "?>a", "<!--a-b-->", "<!----->", "<!-a", "<!--"})),
    Example(Css, AnyOf(Css, CssStates),
            Written({" a", "\n :a{", " :a;{", " : a{", ":a/*{*/}", ":a/*{*/{", "::a", ":a", " }", " *"})),
    Example(Awk, AnyOf(Awk, [call |-> {"func_call"}, tight |-> {"no_space"}, block |-> {"if_else_separator", "concatenating_space"},
                             operand |-> {"concatenating_space"}]),
            Written({"(", " a", ";\n else", "\n#a\n#b\n else", "#a", " \\\n a", " \\\r\nb", " \\a", " in ", " if(", " i", " +",
                     "els a", "", " ;a"}))}

HeredocExamples == {
    Example(Sql, EachAlone(Sql), Written({"$a$b$a$", "$$a$$", "$$a$b", "$1$", "$a b", "$a1$$a$"})),
    Example(Jsonnet, AnyOf(Jsonnet, [start |-> {"string_start"}, string |-> {"string_content", "string_end"}, end |-> {"string_end"}]),
            Written({" \"a\\z \nb\\\"\"", "|||a||b|||", "'a\nb'", "||a", "|||||||", "\"\\"})),
    Example(Cmake, AnyOf(Cmake, [open |-> {"bracket_argument_open", "line_comment", "bracket_comment_open"},
                                 argument |-> {"bracket_argument_content", "bracket_argument_close"},
                                 comment |-> {"bracket_comment_content", "bracket_comment_close"}]),
            Written({" [=[a]]=]]=]b", "#[[a]]", "[[]]", "#[=a\nb", "[=a", "[[a]=]]", "#a"})),
    Example(Hack, AnyOf(Hack, [start |-> {"heredoc_start"}, body |-> {"heredoc_body", "heredoc_end", "embedded_opening_brace"}]),
            Written({"a\nb$c\na;\n", "'a'\n$b\na\n", "\"a\"\na;\nb", "a\n{$b}\na\n\n", "a\n\\a{b$1\na\nc", "\"a\n", "a\n{$1$b", " \n", "a\nab\n\na\n"})),
    Example(Beancount, AnyOf(Beancount, [head |-> {"stars"}, section |-> {"stars", "section_end"}, end |-> {"section_end", "eof"}, eof |-> {"eof"}]),
            Written({"* a", "** *\n", "*a", " * a", "* ** *\n"}))}


TagStates == [text |-> {"start_tag_name", "end_tag_name", "implicit_end_tag", "comment"}, start |-> {"start_tag_name"},
              end |-> {"end_tag_name", "erroneous_end_tag_name"}, close |-> {"implicit_end_tag", "/>"}, raw |-> {"raw_text"}]
TagTexts  == Written({"p p</p>", "li <li", "br/>a", "<!--a-b-->", "<!--a", "a/>", "td <tr ", "Script </scripta</SCRIPT>",
                      "x</y>", "html ", "<!a", "p</li", "i</i>", "dt<a>", "</", "style <</style", "col <a"})
With(port, sets) == AnyOf(port, sets @@ TagStates)

MarkupExamples == {
    Example(Blade, AnyOf(Blade, TagStates), TagTexts),
    Example(Vue, With(Vue, [fragment |-> {"text_fragment"}, inside |-> {"interpolation_text", "comment"}]),
            Written({"template a", " a\n <", "a{b}c{{", "a}b}}", "a<1<b", "a}\n<", "\n <a", "a\nb{{", "{{", "a", "} }a}}"})),
    Example(Angular, With(Angular, [inside |-> {"interpolation_start", "interpolation_end"}, flow |-> {"control_flow_start"}]),
            Written({" {{ }}", "{a", "}}", "@a", "p {{a", "{{}a"})),
    Example(Svelte, With(Svelte, [html |-> {"svelte_raw_text"}, each |-> {"svelte_raw_text_each"},
                                  snippet |-> {"snippet_arguments"}, slash |-> {"svelte_raw_text", "/"}]),
            {Ticked("a'b${c{d}e}\\''}"), Ticked("${'a'}\"\\\"\"}"), Ticked("'${'a'\\}")} \cup
            Written({" a as b}", "as }", "{a}}", "/*a**/}", "//a\n}", "/a}", "@a", "(a)b)", "'}'}", "\\}", "br {", "{a", "\"'\\\"})",
                     "/*a", "a//b\n)", ")"})),
    Example(Astro, With(Astro, [front |-> {"frontmatter_js_block"}, attribute |-> {"attribute_js_expr", "attribute_backtick_string"},
                                word |-> {"permissible_text", "interpolation_start", "interpolation_end"},
                                tick |-> {"attribute_backtick_string"}, mixed |-> {"permissible_text", "start_tag_name", "implicit_end_tag"}]),
            {Ticked("a'${b}c'\n---"), Ticked("'$a${'}'}b'"), Ticked("<1'a'//b\n{")} \cup
            Written({"a\n---", "---", "-a\n//b\n---", "/*\n---*/\n---", "/*/a", "{a}b}", "'}'/*}*/}", "//}\n}", " a<b", "a<1{", "/**//a",
                     "{a}", ">a", "br }", "a/*b*c*/d", "a\"\\\"", "<", "<{", "a\n--\"a"})),
    Example(Templ, AnyOf(Templ, [css |-> {"css_property_value"}, script |-> {"script_block_text"}, case |-> {"switch_element_text"},
                                 text |-> {"element_text"}]),
            Written({"a;", "{a", "a{b}c}", "}", "if a", "ifa", "@a.b", "case ", "a.b", "el", "a{b", "f<", "//", "a@b\nc", "d(", " defaul"}))}

RECURSIVE Repeated(_, _)
Repeated(word, n) == IF n = 0 THEN "" ELSE word \o Repeated(word, n - 1)
Columns6 == "      "
Sixty    == Repeated("a", 60)

DocumentExamples == {
    Example(Liquid, EachAlone(Liquid),
            Written({"---\na\n--- \n", "---a\n", "a--\r\n---", "---\n--\n", " #a%b%}", "#a\n", "#a", "{% endraw %}", "a{%- endcomment -%}b", "{%raw%}",
                     "{a{%end{% raw%a", "endcomment", " comment", "ecomment", "encomment ", "{% endrawcomment%}", "{%comment-%"})),
    Example(Doxygen, EachAlone(Doxygen),
            Written({"a\n", "@code{.c}a", "@codea", "\\endcode", "a@endcode ", "@endcode", "@enda@endcodea", "{.}", "{.a", "{.cc}", "@code", "a\\e"})),
    Example(Cobol, EachAlone(Cobol),
            Written({" ;,a", "abc", "1\n  ", Columns6 \o "*ab\n", Columns6 \o "ab", "author ", "Security.", "autho ", "data division\n", "a b\nc", "\"ab\"",
                     Columns6 \o "\"" \o Sixty \o "aaaaabbbb\na" \o Columns6 \o "-", Columns6 \o "\"" \o Sixty \o "aaaaabbbb\n" \o Columns6 \o "- \"c\"",
                     Columns6 \o Columns6 \o Sixty \o "abc\n", "\"a"}))}

ListExamples == {
    Example(Org, AnyOf(Org, [text |-> {"stars", "list_start", "bullet", "eof"}, item |-> {"list_start", "list_item_end", "list_end", "bullet"},
                             section |-> {"section_end", "stars", "list_end"}, eof |-> {"section_end", "eof"}]),
            Written({"- a\n - b\n- c", "* a\n** b\n* ", "a. b\n\n", "1) a\n1. ", "+ \n\n", "\tA. a\n b", "1.a", "*a", "A)  ", "* \n* "})),
    Example(Dockerfile, AnyOf(Dockerfile, [run |-> {"heredoc_marker"}, line |-> {"heredoc_nl", "heredoc_line", "heredoc_end"},
                                           body |-> {"heredoc_line", "heredoc_end"}, end |-> {"heredoc_end"}]),
            Written({"<<a\nb\na\n", "<<-'a'\n\taa\n\ta", "<<\"b\\\"\"\n", "<<a<<b<<a\nb\na", "<a", "<<\"a\n", "<<''", "<<1", "<<'\\"}) \cup {<<"<", "<", "'", "E1", "E2", "'", "\n">>}),
    Example(Disassembly, AnyOf(Disassembly, [name |-> {"code_identifier"}, code |-> {"instruction", "memory_dump"}]),
            Written({"a+1> b", "ab>c", "a> ", "a;", ";", "a+b> ", "aa 01 b\nx i", "aa 01\n", "a .b", "xx <a.b>", "..\n", "x<.a>", "(bad)", ":a", "mo #1 a", "m#a", " x;", "<a", "aa ab\nxyz\n", "aa\n..\n"}))}

CountingExamples == {
    Example(Teal, AnyOf(Teal, [text |-> {"comment", "long_string_start", "short_string_start"},
                               short |-> {"short_string_char", "short_string_end"},
                               long |-> {"long_string_char", "long_string_end"}, end |-> {"short_string_end"}]),
            Written({"[[a]]", "[=[]]=]", "[=a", " 'a\"'", "\"%", "--a\n'", "--[[a]]b", "--[=[]]=]b", "--[=[]=]", "-a", "--[=a\n",
                     "--[[]a]", "[[]=%", "--[=[]=]]", "--[[a", "[[]"})),
    Example(Nickel, AnyOf(Nickel, [text |-> {"multstr_start", "str_start", "quoted_enum_tag_start", "comment"},
                                   string |-> {"str_end", "interpolation_start"},
                                   block |-> {"multstr_end", "interpolation_start"}, inside |-> {"interpolation_end", "str_start"}]),
            Written({" m%\"a\"%", "m%%\"%{\"%%", "\"a\"", "\"%{\"b\"}", "'\"%{\"", "a-s%\"%{}", "a-sb%\"", "m%%%%\"%{", "m%a#a\n", "#a\nb",
                     "m-s%%\"\"%%", "--s%\"", "a-s%", "\"%%%{", "m%\"\"%{", "1-s"}))}

BlockTexts == {<<"\n", " ", "a", "\n", "a">>, <<"\n", " ", "#", "\n", "a">>, <<"q", "a", "q">>, <<"f", "q", "{", "{", "a", "q">>,
               <<"f", "q", "a", "}", "q", "\n", " ">>, <<"Q", "Q", "Q", "a", "\n", "Q", "Q", "Q">>, <<"r", "Q", "\\", "Q", "Q">>,
               <<"\n", " ", "f", "q", "\n", "q", "\n">>, <<"b", "q", "\\", "N", "a", "q">>, <<"q", "\\", "q">>, <<"\\", "\n", "a">>}
BlockScanners == {
    Example(Starlark, AnyOf(Starlark, [line |-> {"newline", "indent", "dedent", "string_start"}, bracket |-> {"close_paren", "string_start"},
                                       string |-> {"string_content", "escape_interpolation", "string_end"}]), BlockTexts),
    Example(Mojo, AnyOf(Mojo, [line |-> {"newline", "indent", "dedent", "string_start"}, bracket |-> {"close_paren", "string_start"},
                               string |-> {"string_content", "string_end"}]), BlockTexts)}

PoundExamples == {
    Example(Pkl, AnyOf(Pkl, [line |-> {"sl_string_chars"}, line1 |-> {"sl1_string_chars", "ml1_string_chars"}, line2 |-> {"sl2_string_chars"},
                             lines |-> {"ml_string_chars"}, lines1 |-> {"ml1_string_chars"},
                             operator |-> {"open_subscript_bracket", "open_argument_paren", "binary_minus"}, minus |-> {"binary_minus"}]),
            UpTo("\"#", 3) \cup Written({"a\"#", "a\\#", "a\"\"\"#", "a\"\"\"", "a\"\"\n\"", "a\"\\\"\"\"##", "\\a", "a\\#\"##", " [", "\t(", "-1", "->", "\r-", "\n-", "a\"\"\"b\"\"\"#"}))}


ContextExamples == {
    Example(Hcl, AnyOf(Hcl, [value |-> {"quoted_template_start", "heredoc_identifier"},
                             string |-> {"quoted_template_end", "template_literal_chunk", "template_interpolation_start",
                                         "template_directive_start"},
                             hole |-> {"template_interpolation_end", "template_directive_end", "quoted_template_start"},
                             body |-> {"heredoc_identifier", "template_literal_chunk"}, start |-> {"quoted_template_start"},
                             heredoc |-> {"heredoc_identifier", "template_literal_chunk", "template_interpolation_start"}]),
            Written({"\"a\"", "\"$${", "\"%%{", "\"%{}\"", "\"$a", "\"\\n", "\"\\u0a1b", "\"\\u0a-", "\"\\x",
                     "a1\n a1\n", "a\nb\n", "a\n a-\na\n", "-E\nE\n", " a\na a", "${}"})),
    Example(Csharp, AnyOf(Csharp, [statement |-> {"opt_semi"}, raw |-> {"raw_string_start", "interp_regular_start"},
                                   content |-> {"raw_string_content", "raw_string_end"}, close |-> {"raw_string_end"},
                                   start |-> {"interp_regular_start", "interp_verbatim_start", "interp_raw_start"},
                                   quote |-> {"interp_start_quote"}, end |-> {"interp_end_quote"},
                                   string |-> {"interp_string_content", "interp_end_quote", "interp_open_brace"},
                                   hole |-> {"interp_close_brace"}]),
            Written({";a", "\"\"\"a\"\"\"", "\"\"\"a\"\"b\"\"\"", "$\"a{b}\"", "$\"a{b", "@$\"a\"\"b\"", "$@\"{{a\"", "$\"\"", "$$\"\"\"a{{b}}\"\"\"",
                     "$\"a\\\"", "$ \"", "$\"}}}}", " $\"{}\"a", "$\"\"\"\"a\"\"b"}))}

LineExamples == {
    Example(Odin, AnyOf(Odin, [line |-> {"newline", "backslash", "block_comment"}, number |-> {"float", "newline"},
                               operand |-> {"float", "block_comment"}, list |-> {"nl_comma", "newline"},
                               block |-> {"newline", "bracket"}, comment |-> {"block_comment", "backslash"}]),
            UpTo("1.e", 3) \cup Written({"1.1e-1i", "1e+1", "1e--", "-.1", "1.1j", "1i", "1..1", ".", "..\n", " 1.1.1", "1.1e1e", "\n 1.a",
                "\n\n a", "\n{ ", "\n\n{ ", "\nwhere a", "\nwhere", "\nelse ", "\nelse /*a*/", ",\n a", ", \n}", ",a", ", a\n", "\\\n a", "\\a",
                "\\/*a*/", " /*/*a*/*/b", "/*\"", "/**/", "/*a", "/a", "\nelsea"}))}

Stateless == StatelessExamples \cup LiteralExamples \cup DocumentExamples
            \cup PoundExamples \cup LineExamples
Stateful  == StatefulExamples \cup LayoutExamples \cup HeredocExamples
            \cup MarkupExamples \cup ListExamples \cup CountingExamples \cup BlockScanners
            \cup ContextExamples
Examples  == Stateless \cup Stateful
=============================================================================
