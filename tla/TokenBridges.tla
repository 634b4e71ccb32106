------------------------------ MODULE TokenBridges ------------------------------
(***************************************************************************)
(* The hand-written token sources as a parser drives them: it takes the    *)
(* next token, or, when it has reused a node of an old tree that begins    *)
(* with the token it holds, skips to the node's end.  Reading a text to    *)
(* its end without a skip is what a skip is held against.                  *)
(*                                                                         *)
(* A node that begins with the last token is that token alone, a leaf, or  *)
(* a phrase.  A phrase ends where some later token does, but never inside  *)
(* a string that is split; an extra, as Go's comments are, begins none.    *)
(***************************************************************************)
EXTENDS BridgeReaders

CONSTANTS
    Languages,    \* the token sources read with
    Texts         \* the texts each of them reads: a function to sets of sequences

Sources == {"json", "toml", "yaml", "c", "java", "lua", "authzed", "generic split",
            "generic whole", "html", "go"}

ASSUME LanguagesHaveSources ==
    Languages \subseteq Sources /\ \A l \in Languages : \A t \in Texts[l] : t \in Seq(STRING)

VARIABLES
    language,
    \* text, of BridgeReaders
    source,       \* the token source: its cursor, what is pending, its flags, done
    last,         \* the token the parser holds, in a set of at most one
    full,         \* what the source makes of the text from its start, token by token
    count,        \* how many tokens of full the parser has, or has skipped
    incident      \* what a skip has lost

vars == <<text, language, source, last, full, count, incident>>

-----------------------------------------------------------------------------
Source == [at : Place, pending : Seq(Tokens), mode : SUBSET Flags, done : BOOLEAN]

NewSource == [at |-> Origin, pending |-> << >>, mode |-> {}, done |-> FALSE]

ReadAfresh(lang, at, mode) ==
    CASE lang = "json"          -> ReadJson(at)
      [] lang = "toml"          -> ReadToml(at, mode)
      [] lang = "yaml"          -> ReadYaml(at, mode)
      [] lang = "c"             -> ReadC(at, mode)
      [] lang = "java"          -> ReadJava(at)
      [] lang = "lua"           -> ReadLua(at)
      [] lang = "authzed"       -> ReadAuthzed(at)
      [] lang \in {"generic split", "generic whole"} -> ReadGeneric(at, lang = "generic whole")
      [] lang = "html"          -> ReadHtml(at, mode)
      [] lang = "go"            -> ReadGo(at, mode)

Call(token, s) == [token |-> token, source |-> s]
Calls          == [token : Tokens, source : Source]

\* The first of the tokens made is returned, the others are pending.
Returned(r) ==
    Call(Head(r.tokens),
         [at |-> r.at, pending |-> Tail(r.tokens), mode |-> r.mode, done |-> r.done])

\* Next: what is pending comes first; in TOML's source, being done does.
PendingFirst(lang, s, read) ==
    CASE s.done /\ (s.pending = << >> \/ lang = "toml") -> Call(TheEnd(s.at), s)
      [] s.pending # << >> /\ (~ s.done \/ lang # "toml") ->
            Call(Head(s.pending), [s EXCEPT !.pending = Tail(@)])
      [] OTHER -> Returned(read)
NextToken(lang, s) == PendingFirst(lang, s, ReadAfresh(lang, s.at, s.mode))
GoNext(s)          == PendingFirst("go", s, ReadGo(s.at, s.mode))

\* All tokens of the text, each with the flags it was asked for with, whether
\* the source was inside a string then: tokens of it were pending, or bytes
\* that no token has were behind the last one; and where its cursor is behind it.
WholeReading(lang) ==
    LET Inside(s, end) == s.pending # << >> \/ (lang = "generic split" /\ s.at.pos > end)
        From[r \in [source : Source, end : Nat]] ==
          LET Then(call) ==
                <<[token |-> call.token, mode |-> r.source.mode, split |-> Inside(r.source, r.end),
                   behind |-> call.source.at.pos]>>
                \o IF call.token.symbol = "end" THEN << >>
                   ELSE From[[source |-> call.source, end |-> call.token.to.pos]]
          IN  Then(NextToken(lang, r.source))
    IN  From[[source |-> NewSource, end |-> 0]]

Init ==
    /\ language \in Languages
    /\ text \in Texts[language]
    /\ source = NewSource
    /\ last = {}
    /\ full = WholeReading(language)
    /\ count = 0
    /\ incident = {}

-----------------------------------------------------------------------------
HoldsEnd == \E t \in last : t.symbol = "end"

TakeToken ==
    /\ ~ HoldsEnd
    /\ \E call \in {NextToken(language, source)} :
          /\ source' = call.source
          /\ last' = {call.token}
    /\ count' = count + 1
    /\ UNCHANGED <<text, language, full, incident>>

\* The flags a skip leaves the source with.
ModeBehindSkip(target) == IF language = "toml" /\ target > 0 THEN {"started"} ELSE {}

\* faulty variant: going back to the start leaves row and column.
CursorMovedKeepingColumn(at, target) ==
    RunesTo(IF target < at.pos THEN [at EXCEPT !.pos = 0] ELSE at, target)

\* faulty variant: the cursor goes on until it is beyond the target.
CursorMovedPast(at, target) ==
    RunesTo(IF target < at.pos THEN Origin ELSE at, target + 1)

\* The cursor goes on to a target, from the start if it is beyond it.
CursorMoved(at, target) == RunesTo(IF target < at.pos THEN Origin ELSE at, target)

\* faulty variant: every source keeps what is pending.
SkipKeepingPending(s, target) ==
    NextToken(language,
              [at |-> CursorMoved(s.at, target), pending |-> s.pending,
               mode |-> ModeBehindSkip(target), done |-> FALSE])

\* SkipToByte: the cursor is moved, and everything pending dropped, but not
\* by TOML's source.
SkipToByte(s, target) ==
    NextToken(language,
              [at      |-> CursorMoved(s.at, target),
               pending |-> IF language = "toml" THEN s.pending ELSE << >>,
               mode    |-> ModeBehindSkip(target),
               done    |-> FALSE])

\* The line's end that Go's scanner holds behind a comment: ts.pending is empty.
HoldsLineEnd(s) == s.pending # << >> /\ Head(s.pending).symbol = "line end"

\* Go's SkipToByteWithPoint: a new scanner from the target on, unless
\* something is pending; then tokens are taken until one begins there.
GoSkip(s, target) ==
    LET Reseek == IF s.pending = << >> \/ HoldsLineEnd(s)
                  THEN [at |-> GoPoint(target), pending |-> << >>, mode |-> {}, done |-> FALSE]
                  ELSE s
    IN  Settled(Calls, GoNext(Reseek),
                [call \in Calls |->
                    IF call.token.symbol = "end" \/ call.token.from.pos >= target THEN call
                    ELSE GoNext(call.source)])

\* Whether the scanner, initialised anew, forgets the line's end it holds is its
\* own business (external).  If not, that comes next, where the new file begins.
LateLineEnd(s, target) ==
    {Call(GoToken("line end", target, target + 1),
          [at |-> GoPoint(target), pending |-> << >>, mode |-> {}, done |-> FALSE]) :
        x \in {y \in {s} : language = "go" /\ target < Len(text) /\ HoldsLineEnd(y)}}

\* A node that ends with the text: the parser makes the end itself.
EndMade(s) == Call(TheEnd([RunesTo(Origin, Len(text)) EXCEPT !.pos = Len(text)]), s)

Skipped(s, target) ==
    CASE target = Len(text) -> EndMade(s)
      [] target < Len(text) /\ language = "go" -> GoSkip(s, target)
      [] OTHER -> SkipToByte(s, target)

\* The tokens of the full reading that begin at a target or behind it, by
\* the first of them.
FirstBehind(target) ==
    CHOOSE k \in (count + 1) .. Len(full) :
        /\ full[k].token.from.pos >= target \/ full[k].token.symbol = "end"
        /\ \A j \in (count + 1) .. (k - 1) :
              full[j].token.from.pos < target /\ full[j].token.symbol # "end"

\* The ends of the nodes that begin with the last token.
NodeEnds ==
    {t.to.pos : t \in {u \in last : u.from.pos < u.to.pos}}
        \cup {full[k].token.to.pos : k \in {j \in (count + 1) .. (Len(full) - 1) :
                 /\ \E t \in last : t.from.pos < t.to.pos /\ t.symbol # "COMMENT"
                 /\ full[j].token.from.pos < full[j].token.to.pos
                 /\ ~ full[j + 1].split}}

\* What a skip to a target loses of what is due there: what was pending; the
\* flags; the marker of the end; the bytes of what Go's scanner has read that
\* are behind the target.  And TOML's source keeps what is stale, as Go's
\* scanner may.
LostBySkip(target, due) ==
    LET ends == target = Len(text)
    IN  {x \in {"in split", "stale tokens", "flags", "end marker", "in token"} :
            CASE x = "in split"     -> ~ ends /\ language \notin {"toml", "go"} /\ due.split
              [] x = "stale tokens" -> /\ ~ ends
                                       /\ \/ language = "toml" /\ source.pending # << >>
                                          \/ language = "go" /\ HoldsLineEnd(source)
              [] x = "flags"        -> /\ ~ ends
                                       /\ due.mode # ModeBehindSkip(target)
                                       /\ language = "go" => source.pending = << >>
              [] x = "in token"     -> /\ ~ ends /\ language = "go" /\ source.pending = << >>
                                       /\ \E k \in 1 .. Len(full) :
                                             full[k].token.from.pos < target /\ target < full[k].behind
              [] OTHER              -> ends /\ due.token.symbol # "end"}

Skip(target) ==
    /\ ~ HoldsEnd
    /\ incident = {}
    /\ target \in NodeEnds
    /\ \E call \in {Skipped(source, target)} \cup LateLineEnd(source, target) :
          /\ source' = call.source
          /\ last' = {call.token}
    /\ count' = FirstBehind(target)
    /\ incident' = LostBySkip(target, full[FirstBehind(target)])
    /\ UNCHANGED <<text, language, full>>

Next == TakeToken \/ \E target \in 1 .. Len(text) : Skip(target)

Spec == Init /\ [][Next]_vars

-----------------------------------------------------------------------------
(* Properties.                                                             *)

IsToken(t) == t \in Tokens /\ t.from.pos <= t.to.pos

\* The source's cursor is in the text, and so are the tokens.
InText ==
    /\ source \in Source /\ source.at.pos <= Len(text)
    /\ \A i \in 1 .. Len(source.pending) : IsToken(source.pending[i])
    /\ \A t \in last : IsToken(t) /\ t.to.pos <= Len(text)

\* The nodes a parser may reuse do not end within the token it holds.
NodesHoldTheirToken ==
    ~ HoldsEnd /\ incident = {} => \A target \in NodeEnds : \A t \in last : t.to.pos <= target

\* Texts, tokens and counts are what they can be; cursor and tokens lie in the
\* text, a reused node holds the token it begins with (NextToken and SkipToByte
\* of every source, tryReuseSubtree).
TypeOK ==
    /\ language \in Languages /\ text \in Texts[language]
    /\ InText /\ NodesHoldTheirToken
    /\ \A k \in 1 .. Len(full) : IsToken(full[k].token)
    /\ count \in 0 .. (Len(text) * 3 + 4)
    /\ incident \subseteq {"in split", "stale tokens", "flags", "end marker", "in token"}

\* A skip shows: the token it returns, and all that are taken from there on,
\* are those that reading the text from its start gives.  Not so where it
\* loses what was pending, or the source's flags, or the marker of the end,
\* or returns what is stale (SkipToByte of every source, parser.go:62-66).
SkippingIsReading ==
    incident = {} /\ count > 0 => last = {full[count].token}

\* The row and the column a token is reported at are those of its bytes in the
\* text, also where the cursor went back to the start and over the text again.
\* Not so for the end of a YAML scalar, whose column counts bytes
\* (advanceRune and SkipToByte of every source; yaml_lexer.go pointAtOffset).
PointsFollowBytes ==
    \A t \in last :
        /\ t.from = [RunesTo(Origin, t.from.pos) EXCEPT !.pos = t.from.pos]
        /\ \/ t.to = [RunesTo(Origin, t.to.pos) EXCEPT !.pos = t.to.pos]
           \/ language = "yaml" /\ t.symbol = "scalar" /\ t.to.row = RunesTo(Origin, t.to.pos).row

\* A Go string that ends the text before a closing quote: the last byte of it
\* is split off as one.
OpenGoString == language = "go" /\ \E t \in last' : t.symbol = "close"

\* The end of a line within a Go comment, returned as a semicolon behind the
\* comment, at a byte of it (go_lexer.go:256-284, go/scanner).
LineEndInComment == language = "go" /\ HoldsLineEnd(source)

\* The token a parser is given begins where the last one ended, or behind it,
\* and after a skip no earlier than where the skipped node ended: a parser that
\* was given a byte twice would build a tree of overlapping nodes.  Not so, as
\* lexer_properties_test.go:89-109 has it, for a semicolon within a comment of
\* Go's, nor for what comes after a skip from before it
\* (NextToken and SkipToByte of every source).
TokensAdvance ==
    [][\A t \in last' : \A u \in last :
          \/ t.from.pos >= u.to.pos
          \/ "stale tokens" \in incident'
          \/ OpenGoString \/ LineEndInComment]_vars
=============================================================================
