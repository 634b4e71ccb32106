--------------------------------- MODULE Lexer ---------------------------------
(***************************************************************************)
(* The table-driven lexer of lexer.go: a DFA is run from a place as far as *)
(* it goes, and the last accepting state it went through makes the token.  *)
(*                                                                         *)
(* A table is a function from state numbers, 0 and up, to                  *)
(*   accept       the symbol accepted, or NoSymbol; skip: accepts a gap    *)
(*   transitions  in order: the runes (on), the next state, whether what   *)
(*                was read so far is skipped                               *)
(*   default, eof the state for any other rune, or at the end; or -1       *)
(***************************************************************************)
EXTENDS SourceText, FiniteSets

NoSymbol == "end"    \* Symbol 0: no token, a gap, or the end of the input

\* faulty variant: the default is taken wherever there is one.
StepDefaultFirst(st, rune) ==
    LET fits == {i \in DOMAIN st.transitions : rune \in st.transitions[i].on}
    IN  IF fits = {} \/ st.default >= 0 THEN [next |-> st.default, skip |-> FALSE]
        ELSE LET t == st.transitions[CHOOSE i \in fits : \A j \in fits : i <= j]
             IN  [next |-> t.next, skip |-> t.skip]

\* The state after a rune, whether it skips; next is -1 where there is none.
Step(st, rune) ==
    LET fits == {i \in DOMAIN st.transitions : rune \in st.transitions[i].on}
    IN  IF fits = {} THEN [next |-> st.default, skip |-> FALSE]
        ELSE LET t == st.transitions[CHOOSE i \in fits : \A j \in fits : i <= j]
             IN  [next |-> t.next, skip |-> t.skip]

\* Where a run of the DFA is: the state, the place, where its token begins,
\* the token last accepted (in a set of at most one), and the moves it has
\* made at the end of the text since the last rune.
Running == [state : Int, at : Place, begin : Place,
            accepted : SUBSET [symbol : STRING, from : Place, to : Place],
            eofHops : Nat]

\* Past a rune, by the step the state makes on it: where there is none, out of
\* the states with what was accepted.
Moved(c, acc, s, past) ==
    IF s.next < 0 THEN [c EXCEPT !.state = -1, !.accepted = acc]
    ELSE [state |-> s.next, at |-> past, eofHops |-> 0,
          begin    |-> IF s.skip THEN past ELSE c.begin,
          accepted |-> IF s.skip THEN {} ELSE acc]

\* What a run has accepted once it is in its state.
Accepted(states, c) ==
    IF c.state \notin DOMAIN states THEN c.accepted
    ELSE LET st == states[c.state]
         IN  IF st.accept # NoSymbol \/ st.skip
             THEN {Token(IF st.skip THEN NoSymbol ELSE st.accept, c.begin, c.at)}
             ELSE c.accepted

\* At the end of the text there is the state's move for it, as often as there
\* are states.
GoesOn(states, text, c) ==
    /\ c.state \in DOMAIN states
    /\ AtEnd(text, c.at.pos) =>
          states[c.state].eof >= 0 /\ c.eofHops <= Cardinality(DOMAIN states)

Onward(states, text, c) ==
    IF AtEnd(text, c.at.pos)
    THEN [c EXCEPT !.state = states[c.state].eof, !.accepted = Accepted(states, c), !.eofHops = @ + 1]
    ELSE Moved(c, Accepted(states, c),
               Step(states[c.state], DecodeRune(text, c.at.pos).rune), OneRune(text, c.at))

\* scan: the token found from a place, in a set of at most one.
Scan(states, text, startState, place) ==
    LET Run[c \in Running] ==
          IF GoesOn(states, text, c) THEN Run[Onward(states, text, c)] ELSE Accepted(states, c)
    IN  Run[[state |-> startState, at |-> place, begin |-> place,
             accepted |-> {}, eofHops |-> 0]]

\* Past a gap, and where nothing or a gap of no width was found past a rune.
PastGap(text, found, at) ==
    IF \E t \in found : t.to.pos > at.pos THEN (CHOOSE t \in found : TRUE).to ELSE OneRune(text, at)

\* Next: the token from a place on.  What the DFA does not accept is passed
\* over.
NextToken(states, text, startState, place) ==
    LET Next[at \in Place] ==
          IF AtEnd(text, at.pos) THEN Token(NoSymbol, at, at)
          ELSE LET From(found) == IF \E t \in found : t.symbol # NoSymbol THEN CHOOSE t \in found : TRUE
                                  ELSE Next[PastGap(text, found, at)]
               IN  From(Scan(states, text, startState, at))
    IN  Next[place]
=============================================================================
