--------------------------- MODULE MCGrammarCache ---------------------------
(* Instances of GrammarCache small enough for TLC.                         *)
EXTENDS GrammarCache

CONSTANTS e1, e2, e3, c1, c2, css, lua

TwoBlobs == {css, lua}
FlakyBlob == {lua}
ThreeEntries == {e1, e2, e3}
TwoEntries == {e1, e2}
TwoCallers == {c1, c2}
SomeLimits == {-2, 0, 1}
OnOff == {0, 1}
OneOrTwo == {1, 2}
=============================================================================
