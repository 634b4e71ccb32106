------------------------------- MODULE ScannerKit -------------------------------
(***************************************************************************)
(* What the ported scanners of grammars/*_scanner.go are written with.     *)
(* Each of them drives the external lexer of external_lexer.go; here the   *)
(* lexer carries the text it reads (l.src).  A scan takes a lexer, the     *)
(* scanner's state and the set of symbols that may come, and yields an     *)
(* outcome, the lexer and the state as the scan leaves them: a scan that   *)
(* fails keeps what it has done to the state.                              *)
(*                                                                         *)
(* Runes stand for classes: "a" is any letter without a meaning of its     *)
(* own, "1" any digit, "E" a letter outside ASCII.                         *)
(***************************************************************************)
EXTENDS ExternalVM

CONSTANT ByteSize   \* The numbers that a byte can hold: 256

NoState == 0
SymbolsIn(port) == {port.externals[i] : i \in DOMAIN port.externals}
Port(name, externals, created) ==
    [name |-> name, externals |-> externals, created |-> created]

Emit(l, symbol, s) == [outcome |-> "emitted", lexer |-> SetResultSymbol(l, symbol), state |-> s]
Fail(s)            == [outcome |-> "failed", state |-> s]

\* The scan succeeds, but has named no symbol: there is no token.
EmitNothing(l, s) == [outcome |-> "emitted", lexer |-> l, state |-> s]

\* The scan does not come back: it goes round for ever, or the program ends.
Stopped(s) == [outcome |-> "stopped", state |-> s]

\* What a scan tries one after the other: the first that succeeds, or fails
\* for good, is its outcome.
Try(condition, outcome) == IF condition THEN <<outcome>> ELSE << >>
FirstOf(outcomes, s)    == IF outcomes = << >> THEN Fail(s) ELSE Head(outcomes)

Blanks  == {" ", "\t"}
Breaks  == {"\n", "\r"}
Space   == Blanks \cup Breaks \cup {"\f"}
Digit   == {"0", "1"}
Small   == {"a", "b", "c", "d", "e", "f", "g", "h", "i", "j", "k", "l", "m", "n", "o", "p", "q", "r",
            "s", "t", "u", "v", "w", "x", "y", "z"}
Capital == {"A", "B", "C", "D", "F", "H", "I", "L", "M", "N", "O", "P", "R", "S", "T", "U", "X"}
AsciiLetter == Small \cup Capital
Letter  == AsciiLetter \cup {"E"}
WordRune == Letter \cup Digit \cup {"_"}
AtEOF   == {EndOfText}

SmallRunes   == "abcdefghijklmnopqrstuvwxyz"
CapitalRunes == "ABCDEFGHIJKLMNOPQRSTUVWXYZ"
Upper(rune) ==
    IF rune \in Small
    THEN LET i == CHOOSE n \in 1 .. 26 : SubSeq(SmallRunes, n, n) = rune IN SubSeq(CapitalRunes, i, i)
    ELSE rune

Look(l) == Lookahead(l.src, l)
Adv(l)  == Advance(l.src, l, FALSE)
Skip(l) == Advance(l.src, l, TRUE)
Mark(l) == MarkEnd(l)
EmitHere(l, symbol, s) == Emit(Mark(l), symbol, s)

\* A token where a scan has found its end, in a set of at most one lexer, or
\* none, with the state that is kept then.
EmitAny(ends, symbol, s, kept) ==
    IF ends = {} THEN Fail(kept) ELSE Emit(CHOOSE l \in ends : TRUE, symbol, s)
EmitAt(ends, symbol) == EmitAny(ends, symbol, NoState, NoState)

\* Past one rune of the text: not past what looks like its end.
OptAny(l) == IF Look(l) = EndOfText THEN l ELSE Adv(l)
\* Past one rune of some, if there is one.
Opt(l, runes) == IF Look(l) \in runes THEN Adv(l) ELSE l

RECURSIVE While(_, _), SkipWhile(_, _), Until(_, _), SkipUntil(_, _), AtMost(_, _, _)
While(l, runes)     == IF Look(l) \in runes THEN While(Adv(l), runes) ELSE l
SkipWhile(l, runes) == IF Look(l) \in runes THEN SkipWhile(Skip(l), runes) ELSE l
Until(l, runes)     == IF Look(l) \in runes \cup AtEOF THEN l ELSE Until(Adv(l), runes)

SkipUntil(l, runes) == IF Look(l) \in runes \cup AtEOF THEN l ELSE SkipUntil(Skip(l), runes)

\* So many runes of some at most.
AtMost(l, runes, n) == IF n = 0 \/ Look(l) \notin runes THEN l ELSE AtMost(Adv(l), runes, n - 1)

\* The runes read between two lexers of a scan.
RECURSIVE Read(_, _)
Read(from, to) == IF from.at.pos >= to.at.pos THEN << >> ELSE <<Look(from)>> \o Read(Adv(from), to)
SkipOpt(l, runes) == IF Look(l) \in runes THEN Skip(l) ELSE l
Went(from, to)  == to.at.pos > from.at.pos
Level(from, to) == to.at.pos - from.at.pos

\* Past a word, given as a string or read before as a sequence of runes, as
\* far as it is there.
RECURSIVE Along(_, _), SkipAlong(_, _), AlongRunes(_, _), Ahead(_, _)
Along(l, word) ==
    IF word = "" \/ Look(l) # SubSeq(word, 1, 1) THEN l
    ELSE Along(Adv(l), SubSeq(word, 2, Len(word)))
SkipAlong(l, word) ==
    IF word = "" \/ Look(l) # SubSeq(word, 1, 1) THEN l
    ELSE SkipAlong(Skip(l), SubSeq(word, 2, Len(word)))
AlongRunes(l, runes) ==
    IF runes = << >> \/ Look(l) # Head(runes) THEN l ELSE AlongRunes(Adv(l), Tail(runes))
Covers(from, to, n)  == to.at.pos = from.at.pos + n
Follows(l, word)     == Covers(l, Along(l, word), Len(word))

\* The columns of a line's margin, and where it ends.
RECURSIVE Columns(_, _)
Columns(l, n) == CASE Look(l) = " "  -> Columns(Skip(l), n + 1)
                   [] Look(l) = "\t" -> Columns(Skip(l), n + 8)
                   [] OTHER          -> [lexer |-> l, indent |-> n]

\* A number of runes ahead.
Ahead(l, n) == IF n = 0 THEN l ELSE Ahead(Adv(l), n - 1)

Byte(n) == n % ByteSize

\* A stack's top, what is under it, and whether there is a top of some kind.
TopOf(s)  == s[Len(s)]
Front(s)  == SubSeq(s, 1, Len(s) - 1)
OnTop(s, kind) == s # << >> /\ TopOf(s) \in kind
=============================================================================
