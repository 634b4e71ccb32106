-------------------------- MODULE MCIncrementalParse --------------------------
(* Sources and edits in the example languages for IncrementalParse: texts  *)
(* of up to three phrases, and edits that put in a character or a phrase.  *)
EXTENDS IncrementalParse, ExampleLanguages

\* A language with the lex modes of its states, and with a scanner.
Lexed(language, modes) ==
  language @@ [modes |-> modes, externals |-> {}, scanner |-> << >>]
Scanned(language, externals, scanner) ==
  language @@ [modes |-> << >>, externals |-> externals, scanner |-> scanner]

\* The scanner of Quoted: state 1 inside quotes.
Quotes ==
  (<<0, "q">> :> [symbol |-> "open", next |-> 1]) @@
  (<<1, "q">> :> [symbol |-> "close", next |-> 0])

Unambiguous ==
  [Arithmetic |-> Lexed(Arithmetic, << >>), Nested |-> Lexed(Nested, << >>),
   Commented |-> Lexed(Commented, << >>), Items |-> Lexed(Items, << >>), Rights |-> Lexed(Rights, << >>),
   Quotients |-> Lexed(Quotients, [state \in {0, 5} |-> "operand"]),
   Quoted |-> Scanned(Quoted, {"open", "close"}, Quotes)]

Strings(chars, n) == UNION {[1 .. k -> chars] : k \in 0 .. n}

ShortTexts ==
  [Arithmetic |-> Strings({"1", "+"}, 2)
                  \cup {<<"1", "+", "1">>, <<"1", " ", "+", "1">>, <<"1", "+", "1", "+", "1">>},
   Nested |-> {<<"1">>, <<"(", "1", ")">>, <<"(", "(", "1", ")", ")">>},
   Commented |-> {<<"#">>, <<"#", "1">>, <<"1", "#">>, <<"#", "1", "+", "1">>,
                  <<"1", "+", "#", "1">>, <<"1", "#", "+", "1">>},
   Items |-> {<<"1", ";">>, <<"1", ";", "1", ";">>, <<"1", ";", "1", ";", "1", ";">>},
   Rights |-> {<<"1">>, <<"1", "+", "1">>, <<"1", "+", "1", "+", "1">>},
   Quotients |-> {<<"1">>, <<"1", "/", "1", "/", "1">>, <<"/", "1", "/">>,
                  <<"/", "1", "/", "/", "1">>},
   Quoted |-> {<<"q", "1", "q">>, <<";", "q", "1", "q", "q", "1", "q">>}]

ShortInserts ==
  [Arithmetic |-> {<< >>, <<"2">>, <<"+">>, <<" ">>, <<"+", "2">>},
   Nested |-> {<< >>, <<"2">>, <<"(">>, <<")">>},
   Commented |-> {<< >>, <<"2">>, <<"+">>, <<"#">>},
   Items |-> {<< >>, <<"2">>, <<";">>, <<"2", ";">>},
   Rights |-> {<< >>, <<"2">>, <<"+">>, <<"+", "2">>},
   Quotients |-> {<< >>, <<"2">>, <<"/">>, <<"1", "/">>},
   Quoted |-> {<< >>, <<"2">>, <<"q">>, <<";">>}]
=============================================================================
