------------------------------- MODULE MCBridges -------------------------------
(***************************************************************************)
(* Texts for the token sources: all short ones over a few bytes of each    *)
(* language, and longer ones for what takes more bytes.                    *)
(***************************************************************************)
EXTENDS TokenBridges

UpTo(n, bytes) == UNION {[1 .. k -> bytes] : k \in 0 .. n}

MCLiterals ==
    {<<"+">>, <<"+", "+">>, <<"#">>, <<"#", "d">>, <<"#", "i">>, <<"(">>, <<"i", "f">>}

MCTexts ==
    [lang \in Languages |->
      CASE lang = "json" ->
            UpTo(3, {"\"", "\\", "1", ".", "-", "/", "\n"})
              \cup {<<"\"", "u", "\"", ":", "\"", "E1", "E2", "\\", "u", "0", "a", "8", "1", "x", "\"", ",", "1">>,
                    <<"t", "r", "u", "e", ",", "n", "u", "l", "l", "0">>,
                    <<"-", "0", ".", "1", "e", "-", "8", ",", "1", "e", "\"", "u">>,
                    <<"/", "*", "\"", "*", "/", "\"", "x", "\"", "/", "/", "E1", "E2", "\n", "1">>,
                    <<"\"", "E1", "E2", "\\", "E1", "E2">>}
        [] lang = "toml" ->
            UpTo(3, {"\"", "'", "=", "x", "1", "\n", "["})
              \cup {<<"[", "[", "x", "]", "]", "\n", "\"", "E1", "E2", "\"", "=", "\"", "\\", "\"", "x", "\"", "\n">>,
                    <<"1", "e", "-", "1", "=", "0", "x", "1", "a", "\n", ".", "1", "#", "E1", "E2", "\n">>,
                    <<"x", "=", "'", "\\", "'", "\r", "\n", "[", "1", ".", "e", "8", ",", "+", "1", "]">>,
                    <<"\"", "E1", "E2", "\\">>}
        [] lang = "yaml" ->
            UpTo(3, {":", "-", "x", " ", "\n", "\"", "'"})
              \cup {<<"-", " ", "E1", "E2", " ", "x", ":", " ", "\"", "E1", "E2", "\\", "n", "E1", "E2", "\"", "\r", "\n">>,
                    <<"-", "-", "-", "\n", "?", " ", "&", "a", " ", "*", "E1", "E2", "\n", "!", "x", " ", "'", "a", "'", "'", "b", "'">>,
                    <<"x", " ", "#", "e", ":", "\r", "-", " ", "{", "a", ":", " ", "E1", "E2", "}", "\n", ".", ".", ".">>,
                    <<"\"", "\\">>,
                    <<"E1", "E2", ":", " ", "a">>}
        [] lang = "c" ->
            UpTo(3, {"#", "d", "x", "\\", "\n", "\""})
              \cup {<<"#", "d", " ", "x", " ", "E1", "E2", "\\", "\n", "x", "\n", "x">>,
                    <<"L", "\"", "E1", "E2", "\\", "u", "0", "\\", "x", "1", "a", "\\", "n", "\"">>,
                    <<"0", "x", "1", "a", "L">>,
                    <<"/", "*", "E1", "E2", "*", "/", "i", "f", "/", "/", "x", "\n", "+", "+">>,
                    <<"1", ".", "8", "e", "+", "1">>,
                    <<"L", "'", "x", "'", "\"", "\\", "x">>,
                    <<"#", "i", " ", "x", " ", "d", "\n", "x">>,
                    <<"#", "d", " ", "x", "\n">>}
        [] lang = "java" ->
            UpTo(3, {"\"", "\\", "/", "1", "x", "+"})
              \cup {<<"\"", "\"", "\"", "E1", "E2", "\"", "\\", "\"", "\"", "\"", "x">>,
                    <<"\"", "\\", "u", "u", "1", "E1", "E2", "\"">>,
                    <<"1", ".", "8", "f">>,
                    <<"0", "x", "a", ".", "8", "p", "+", "1">>,
                    <<"0", "b", "1", "_", "1", "'", "\\", "'", "'", "i", "f">>,
                    <<"/", "*", "E1", "E2", "*", "/", "x", "/", "/", "\n", "1", ".", ".", "8">>,
                    <<"1", "e", "-", "1", "L", "$", "x">>}
        [] lang = "lua" ->
            UpTo(3, {"-", "[", "\"", "1", ".", "]"})
              \cup {<<"#", "!", "E1", "E2", "\n", "x", "-", "-", "[", "[", "E1", "E2", "]", "]", "\n", "x">>,
                    <<"x", "=", "\"", "E1", "E2", "\\", "E1", "E2", "\"", "[", "[", "\\", "E1", "E2", "\n", "]", "]", "x">>,
                    <<"0", "x", "1", "e", "+", "1", ".", ".", ".", "1", ".", ".", "8">>,
                    <<"'", "\\">>}
        [] lang = "authzed" ->
            UpTo(3, {"\"", "\\", "/", "&", "1", "\n"})
              \cup {<<"\"", "E1", "E2", "\\", "u", "0", "\\", "x", "1", "a", "x", "\"", "-", ">">>,
                    <<"\"", "E1", "E2", "\n", "BQ", "E1", "E2", "\n", "x", "BQ">>,
                    <<"&", "^", "&", "^">>,
                    <<"0", "x", "1", "a", "i", " ", "0", "b", "1", " ", "1", ".", "8", "e", "+", "1", "i", "/", "/", "E1", "E2", "\n", "x">>,
                    <<"1", ".", ".", "8">>,
                    <<"\"", "x", "\\">>}
        [] lang = "generic split" ->
            UpTo(3, {"\"", "\\", "BQ", "x", "1", "#"})
              \cup {<<"#", "!", "E1", "E2", "\n", "x", "\"", "\"", "\"", "E1", "E2", "\\", "\"", "x", "\"", "\"", "\"">>,
                    <<"BQ", "E1", "E2", "\\", "n", "\\", "n", "BQ", "1", ".", "8", "e", "-", "1">>,
                    <<"x", "-", "1", "'", "\\", "E1", "E2", "'", "0", "x", "1", "a">>,
                    <<"-", "-", "E1", "E2", "\n", "#", "d", "x", "#", "x", "\n", "+", "+">>,
                    <<"/", "*", "E1", "E2", "*", "/", "1", ".", ".", "8", "i", "f">>}
        [] lang = "generic whole" ->
            UpTo(2, {"\"", "\\", "BQ", "x", "'", "#"})
              \cup {<<"\"", "E1", "E2", "\\", "\"", "x", "\"", "BQ", "\\", "BQ", "BQ", "'", "x", "'">>,
                    <<"#", "!", "E1", "E2">>}
        [] lang = "html" ->
            UpTo(4, {"<", ">", "/", "x", "=", "\""})
              \cup {<<"<", "x", " ", "a", "=", "\"", "E1", "E2", "\"", ">", "<", "!", "-", "-", "E1", "E2", "-", "-", ">", "E1", "E2", "<", "/", "x", ">">>,
                    <<"<", "x", " ", "a", "=", "'", "E1", "E2">>,
                    <<"<", "x", ":", "a", "/", ">", "E1", "E2", "<", "x", "\n", "=", "1", ">">>,
                    <<"<", "/", "E1", "E2", " ", "x">>}
        [] lang = "go" ->
            UpTo(3, {"\"", "\\", "x", "BQ", "\n", "1", "?"})
              \cup {<<"x", "(", "\"", "E1", "E2", "\\", "\"", "x", "\"", ")", "\n", "\n", "}">>,
                    <<"BQ", "E1", "E2", "\r", "\n", "x", "BQ", "x">>,
                    <<"x", "/", "/", "E1", "E2", "\r", "\n", "BQ", "\r", "BQ">>,
                    <<"\"", "E1", "E2">>,
                    <<"\"", "x", "\n", "1", "\n">>,
                    <<"x", " ", "\"", "x", "\"", "\n">>,
                    <<"E1", "E2", "?", "x", "\n", ")">>,
                    <<"x", " ", "/", "*", "x", "\n", "\n", "*", "/", "x", "\n", "1">>,
                    <<"x", "/", "*", "\r", "E1", "E2", "*", "\r", "/", "\n", "*", "/", "?", "x">>,
                    <<"/", "*", "\r", "\n", "*", "/", "x", "\n">>,
                    <<"x", "/", "*", "/", "\n">>,
                    <<")", "/", "*", "*", "/", "\n", "x">>}]
=============================================================================
