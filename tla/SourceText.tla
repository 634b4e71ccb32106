------------------------------- MODULE SourceText -------------------------------
(***************************************************************************)
(* A source text as the scanners see it: a sequence of bytes, decoded one  *)
(* rune at a time, and the places in it they keep: a byte position with    *)
(* the row and the column that go with it.  Most bytes are a rune each;    *)
(* "E1" and "E2" are the bytes of one rune of two.                         *)
(***************************************************************************)
EXTENDS Integers, Sequences

Place == [pos : Nat, row : Nat, col : Nat]

AtEnd(text, p) == p >= Len(text)

\* faulty variant: the first byte alone decides the width.
DecodeRuneByLead(text, p) ==
    IF text[p + 1] = "E1" THEN [rune |-> "E", size |-> 2] ELSE [rune |-> text[p + 1], size |-> 1]

\* utf8.DecodeRune: half a rune is one of its own, of size 1.
DecodeRune(text, p) ==
    IF text[p + 1] = "E1" /\ p + 1 < Len(text) /\ text[p + 2] = "E2"
    THEN [rune |-> "E", size |-> 2]
    ELSE [rune |-> IF text[p + 1] \in {"E1", "E2"} THEN "?" ELSE text[p + 1], size |-> 1]

\* Past the rune at a place; columns count runes.
Behind(at, r) ==
    [pos |-> at.pos + r.size,
     row |-> IF r.rune = "\n" THEN at.row + 1 ELSE at.row,
     col |-> IF r.rune = "\n" THEN 0 ELSE at.col + 1]
OneRune(text, at) == Behind(at, DecodeRune(text, at.pos))

Token(symbol, from, to) == [symbol |-> symbol, from |-> from, to |-> to]
=============================================================================
