---------------------------- MODULE AttachedScanners ----------------------------
(***************************************************************************)
(* The scanners and the languages they are attached to                     *)
(* (zzz_scanner_attachments.go).  A scanner is a record with its kind: a   *)
(* program ("vm"), or a ported scanner ("port") and its language's name.   *)
(***************************************************************************)
EXTENDS PythonScanner, CommentPorts, SignPorts, LayoutPorts, StringPorts,
        MarkupPorts, DocumentPorts, LiteralPorts

Python == Port("python", << >>, CreatePython)
Starlark == Port("starlark", <<"newline", "indent", "dedent", "string_start", "string_content",
                               "escape_interpolation", "string_end", "comment", "close_bracket",
                               "close_paren", "close_brace", "except">>, CreatePython)
Mojo     == Port("mojo", <<"newline", "indent", "dedent", "string_start", "string_content", "string_end",
                           "comment", "close_paren", "close_bracket", "close_brace">>, CreatePython)

\* As that of Python.
ScanStarlark(text, l, py, valid) == ScanPython(text, l, py, valid)

\* As well, but for braces in a format string, which are content: that it is
\* one, a string that begins tells only the layout behind it.
ScanMojo(text, l, py, valid) ==
    LET scan == ScanPython(text, l, py, valid)
        last == Len(scan.state.delimiters)
    IN  IF Len(py.delimiters) < last
        THEN [scan EXCEPT !.state.delimiters[last].flags = @ \ {"f"}] ELSE scan

RawStrings == {"cpp", "cuda", "arduino", "hlsl"}

\* ExternalScanner.Create, for the languages whose scanner keeps a state.
Created(scanner) ==
    CASE scanner.kind = "vm"          -> 0
      [] scanner.name = "python"      -> CreatePython
      [] scanner.name \in RawStrings -> Cpp.created
      [] scanner.name = "haxe"        -> Haxe.created
      [] scanner.name = "bicep"       -> Bicep.created
      [] scanner.name = "nushell"     -> Nushell.created
      [] scanner.name = "luau"        -> Luau.created
      [] scanner.name = "caddy"         -> Caddy.created
      [] scanner.name = "nginx"         -> Nginx.created
      [] scanner.name = "pug"           -> Pug.created
      [] scanner.name = "firrtl"        -> Firrtl.created
      [] scanner.name = "agda"          -> Agda.created
      [] scanner.name = "earthfile"     -> Earthfile.created
      [] scanner.name = "just"          -> Just.created
      [] scanner.name = "cairo"         -> Cairo.created
      [] scanner.name = "beancount"     -> Beancount.created
      [] scanner.name = "sql"           -> Sql.created
      [] scanner.name = "jsonnet"       -> Jsonnet.created
      [] scanner.name = "cmake"         -> Cmake.created
      [] scanner.name = "hack"          -> Hack.created
      [] scanner.name = "blade"         -> Blade.created
      [] scanner.name = "vue"           -> Vue.created
      [] scanner.name = "angular"       -> Angular.created
      [] scanner.name = "svelte"        -> Svelte.created
      [] scanner.name = "astro"         -> Astro.created
      [] scanner.name = "templ"         -> Templ.created
      [] scanner.name = "org"           -> Org.created
      [] scanner.name = "dockerfile"    -> Dockerfile.created
      [] scanner.name = "disassembly"   -> Disassembly.created
      [] scanner.name = "teal"          -> Teal.created
      [] scanner.name = "nickel"        -> Nickel.created
      [] scanner.name = "starlark"      -> Starlark.created
      [] scanner.name = "mojo"          -> Mojo.created
      [] scanner.name = "hcl"           -> Hcl.created
      [] scanner.name = "csharp"        -> Csharp.created
      [] OTHER                        -> NoState

\* The scanner of a language without a state of its own.
ScanStateless(name, l, valid) ==
    CASE name = "uxntal"       -> ScanUxntal(l, valid)
      [] name = "dhall"        -> ScanDhall(l, valid)
      [] name = "wgsl"         -> ScanWgsl(l, valid)
      [] name = "tablegen"     -> ScanTablegen(l, valid)
      [] name = "wolfram"      -> ScanWolfram(l, valid)
      [] name = "properties"   -> ScanProperties(l, valid)
      [] name = "kconfig"      -> ScanKconfig(l, valid)
      [] name = "godot_resource" -> ScanGodotResource(l, valid)
      [] name = "gn"           -> ScanGn(l, valid)
      [] name = "squirrel"     -> ScanSquirrel(l, valid)
      [] name = "jsdoc"        -> ScanJsdoc(l, valid)
      [] name = "yuck"         -> ScanYuck(l, valid)
      [] name = "racket"       -> ScanRacket(l, valid)
      [] name = "editorconfig" -> ScanEditorconfig(l, valid)
      [] name = "gitcommit"    -> ScanGitcommit(l, valid)
      [] name = "janet"        -> ScanJanet(l, valid)
      [] name = "gleam"        -> ScanGleam(l, valid)
      [] name = "comment"      -> ScanComment(l, valid)
      [] name = "cooklang"     -> ScanCooklang(l, valid)
      [] name = "tcl"          -> ScanTcl(l, valid)
      [] name = "powershell"   -> ScanPowershell(l, valid)
      [] name = "less"         -> ScanLess(l, valid)
      [] name = "scss"         -> ScanScss(l, valid)
      [] name = "fish"         -> ScanFish(l, valid)
      [] name = "fennel"       -> ScanFennel(l, valid)
      [] name = "kdl"          -> ScanKdl(l, valid)
      [] name = "ron"          -> ScanRon(l, valid)
      [] name = "d"            -> ScanD(l, valid)
      [] name = "dart"         -> ScanDart(l, valid)
      [] name = "julia"        -> ScanJulia(l, valid)
      [] name = "javascript"   -> ScanJavascript(l, valid)
      [] name = "typescript"   -> ScanTypescript(l, valid)
      [] name = "tsx"          -> ScanTsx(l, valid)
      [] name = "css"         -> ScanCss(l, valid)
      [] name = "awk"         -> ScanAwk(l, valid)
      [] name = "erlang"      -> ScanErlang(l, valid)
      [] name = "cue"         -> ScanCue(l, valid)
      [] name = "nix"         -> ScanNix(l, valid)
      [] name = "foam"        -> ScanFoam(l, valid)
      [] name = "dtd"         -> ScanDtd(l, valid)
      [] name = "liquid"      -> ScanLiquid(l, valid)
      [] name = "doxygen"     -> ScanDoxygen(l, valid)
      [] name = "cobol"       -> ScanCobol(l, valid)
      [] name = "pkl"         -> ScanPkl(l, valid)
      [] name = "odin"        -> ScanOdin(l, valid)

\* The scanner of any language, with its state.
ScanPort(name, l, s, valid) ==
    CASE name \in RawStrings   -> ScanRawString(l, s, valid)
      [] name = "haxe"         -> ScanHaxe(l, s, valid)
      [] name = "bicep"        -> ScanBicep(l, s, valid)
      [] name = "nushell"      -> ScanNushell(l, s, valid)
      [] name = "luau"         -> ScanLuau(l, s, valid)
      [] name = "caddy"        -> ScanCaddy(l, s, valid)
      [] name = "nginx"        -> ScanNginx(l, s, valid)
      [] name = "pug"          -> ScanPug(l, s, valid)
      [] name = "firrtl"       -> ScanFirrtl(l, s, valid)
      [] name = "agda"         -> ScanAgda(l, s, valid)
      [] name = "earthfile"    -> ScanEarthfile(l, s, valid)
      [] name = "just"         -> ScanJust(l, s, valid)
      [] name = "cairo"        -> ScanCairo(l, s, valid)
      [] name = "beancount"    -> ScanBeancount(l, s, valid)
      [] name = "sql"          -> ScanSql(l, s, valid)
      [] name = "jsonnet"      -> ScanJsonnet(l, s, valid)
      [] name = "cmake"        -> ScanCmake(l, s, valid)
      [] name = "hack"         -> ScanHack(l, s, valid)
      [] name = "blade"        -> ScanBlade(l, s, valid)
      [] name = "vue"          -> ScanVue(l, s, valid)
      [] name = "angular"      -> ScanAngular(l, s, valid)
      [] name = "svelte"       -> ScanSvelte(l, s, valid)
      [] name = "astro"        -> ScanAstro(l, s, valid)
      [] name = "templ"        -> ScanTempl(l, s, valid)
      [] name = "org"          -> ScanOrg(l, s, valid)
      [] name = "dockerfile"   -> ScanDockerfile(l, s, valid)
      [] name = "disassembly"  -> ScanDisassembly(l, s, valid)
      [] name = "teal"         -> ScanTeal(l, s, valid)
      [] name = "nickel"       -> ScanNickel(l, s, valid)
      [] name = "hcl"          -> ScanHcl(l, s, valid)
      [] name = "csharp"       -> ScanCsharp(l, s, valid)
      [] OTHER                 -> ScanStateless(name, l, valid)

WithText(l, text) ==
    [src |-> text, begin |-> l.begin, at |-> l.at, end |-> l.end, result |-> l.result]

\* ExternalScanner.Scan.
Scanned(scanner, text, l, s, valid) ==
    LET reading == WithText(l, text)
    IN  CASE scanner.kind = "vm"       -> ScanVM(scanner, text, l, s, valid)
          [] scanner.name = "python"   -> ScanPython(text, l, s, valid)
          [] scanner.name = "starlark" -> ScanStarlark(text, l, s, valid)
          [] scanner.name = "mojo"     -> ScanMojo(text, l, s, valid)
          [] OTHER                     -> ScanPort(scanner.name, reading, s, valid)
=============================================================================
