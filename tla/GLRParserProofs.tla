--------------------------- MODULE GLRParserProofs ---------------------------
(***************************************************************************)
(* Proofs about GLRParser, for all languages, inputs and limits: types,    *)
(* every stack is a path of the automaton, and no stack holds a token      *)
(* twice as long as no round is out of step.                               *)
(***************************************************************************)
EXTENDS GLRParser, NumberLemmas, SequenceTheorems, FiniteSetTheorems

\* The stack holds tokens 1 to n at most.
Below(n, s) == \A k \in DOMAIN s.entries : s.entries[k].node.tokens \subseteq 1 .. n

\* What holds of every stack the parse keeps.
Sound(l, n, s) == s \in Stack /\ IsPath(l, s) /\ Below(n, s)

\* A stack that has not taken token n, with its tokens in order.
Fresh(n, s) == Disjoint(s) /\ Below(n - 1, s)

\* A node as applyAction makes it for the token at position n.
IsLeafOf(n, node) == node \in Node /\ node.tokens = {n}

-----------------------------------------------------------------------------
\* Facts about stacks; no variable occurs in them.

LEMMA StackFacts ==
    ASSUME NEW s \in Stack
    PROVE  /\ s.entries \in Seq(Entry) /\ Len(s.entries) \in Nat
           /\ DOMAIN s.entries = 1 .. Len(s.entries)
           /\ \A k \in 1 .. Len(s.entries) :
                 /\ s.entries[k] \in Entry
                 /\ s.entries[k].state \in Nat
                 /\ s.entries[k].node \in Node
                 /\ s.entries[k].node.tokens \subseteq Nat \ {0}
                 /\ s.entries[k].node.error \in BOOLEAN
                 /\ s.entries[k].node.extra \in BOOLEAN
           /\ s.score \in Int /\ s.dead \in BOOLEAN /\ s.accepted \in BOOLEAN
<1>1. s.entries \in Seq(Entry) /\ s.score \in Int /\ s.dead \in BOOLEAN /\ s.accepted \in BOOLEAN
  BY DEF Stack
<1>2. \A k \in 1 .. Len(s.entries) : s.entries[k] \in Entry
  BY <1>1
<1>3. \A e \in Entry : /\ e.state \in Nat /\ e.node \in Node
                       /\ e.node.tokens \subseteq Nat \ {0}
                       /\ e.node.error \in BOOLEAN /\ e.node.extra \in BOOLEAN
  BY DEF Entry, Node
<1> QED BY <1>1, <1>2, <1>3

LEMMA BelowGrows ==
    ASSUME NEW s, NEW m \in Int, NEW n \in Int, m <= n, Below(m, s)
    PROVE  Below(n, s)
BY DEF Below

LEMMA TopIsState ==
    ASSUME NEW s \in Stack, NEW l, IsPath(l, s)
    PROVE  Top(s) \in Nat
BY StackFacts DEF Top, IsPath

\* Pushing an entry the tables allow keeps the stack a path.
LEMMA PushPath ==
    ASSUME NEW l, NEW s \in Stack, NEW state \in Nat, NEW node \in Node,
           IsPath(l, s), Follows(l, Top(s), [state |-> state, node |-> node])
    PROVE  Push(s, state, node) \in Stack /\ IsPath(l, Push(s, state, node))
<1> DEFINE e == [state |-> state, node |-> node]
           r == Push(s, state, node)
<1>1. e \in Entry
  BY DEF Entry
<1>2. r = [s EXCEPT !.entries = Append(s.entries, e)]
  BY DEF Push
<1>3. /\ r.entries = Append(s.entries, e) /\ r.score = s.score
      /\ r.dead = s.dead /\ r.accepted = s.accepted /\ r \in Stack
  <2>1. Append(s.entries, e) \in Seq(Entry)
    BY <1>1, StackFacts, AppendProperties
  <2> HIDE DEF e, r
  <2> QED BY <2>1, <1>2 DEF Stack
<1>4. /\ Len(r.entries) = Len(s.entries) + 1
      /\ \A k \in 1 .. Len(s.entries) : r.entries[k] = s.entries[k]
      /\ r.entries[Len(s.entries) + 1] = e
  BY <1>1, <1>3, StackFacts, AppendProperties
<1>5. ASSUME NEW k \in 2 .. Len(r.entries)
      PROVE  Follows(l, r.entries[k - 1].state, r.entries[k])
  <2>1. CASE k <= Len(s.entries)
    <3>1. k \in 2 .. Len(s.entries) /\ k - 1 \in 1 .. Len(s.entries)
      BY <2>1, <1>4, StackFacts
    <3>2. r.entries[k] = s.entries[k] /\ r.entries[k - 1] = s.entries[k - 1]
      BY <3>1, <1>4
    <3>3. Follows(l, s.entries[k - 1].state, s.entries[k])
      BY <3>1 DEF IsPath
    <3> QED BY <3>2, <3>3
  <2>2. CASE k = Len(s.entries) + 1
    BY <2>2, <1>4, StackFacts DEF IsPath, Top
  <2> QED BY <2>1, <2>2, <1>4, StackFacts
<1>6. Len(r.entries) > 0 /\ r.entries[1].state = l.initial
  BY <1>4, StackFacts DEF IsPath
<1> QED BY <1>3, <1>5, <1>6 DEF IsPath

LEMMA PushTokens ==
    ASSUME NEW s \in Stack, NEW state, NEW node \in Node,
           state \in Nat
    PROVE  LET r == Push(s, state, node) IN
           /\ \A n \in Int : Below(n, s) /\ node.tokens \subseteq 1 .. n => Below(n, r)
           /\ Disjoint(s) /\ (\A k \in DOMAIN s.entries :
                \A a \in s.entries[k].node.tokens, b \in node.tokens : a < b)
              => Disjoint(r)
<1> DEFINE e == [state |-> state, node |-> node]
           r == Push(s, state, node)
<1>1. e \in Entry /\ r.entries = Append(s.entries, e)
  BY DEF Entry, Push, Stack
<1>2. /\ Len(r.entries) = Len(s.entries) + 1
      /\ DOMAIN r.entries = 1 .. Len(s.entries) + 1
      /\ \A k \in 1 .. Len(s.entries) : r.entries[k] = s.entries[k]
      /\ r.entries[Len(s.entries) + 1] = e
  BY <1>1, StackFacts, AppendProperties
<1>3. ASSUME NEW n \in Int, Below(n, s), node.tokens \subseteq 1 .. n
      PROVE  Below(n, r)
  BY <1>2, <1>3, StackFacts DEF Below
<1>4. ASSUME Disjoint(s), \A k \in DOMAIN s.entries :
               \A a \in s.entries[k].node.tokens, b \in node.tokens : a < b
      PROVE  Disjoint(r)
  <2> SUFFICES ASSUME NEW k \in DOMAIN r.entries, NEW j \in 1 .. k - 1,
                      NEW a \in r.entries[j].node.tokens,
                      NEW b \in r.entries[k].node.tokens
               PROVE  a < b
    BY DEF Disjoint
  <2>1. CASE k <= Len(s.entries)
    <3>1. k \in DOMAIN s.entries /\ r.entries[k] = s.entries[k] /\ r.entries[j] = s.entries[j]
      BY <2>1, <1>2, StackFacts
    <3> QED BY <3>1, <1>4 DEF Disjoint
  <2>2. CASE k = Len(s.entries) + 1
    <3>1. j \in DOMAIN s.entries /\ r.entries[k] = e /\ r.entries[j] = s.entries[j]
      BY <2>2, <1>2, StackFacts
    <3> QED BY <3>1, <1>4
  <2> QED BY <2>1, <2>2, <1>2, StackFacts
<1> QED BY <1>3, <1>4

\* Cutting a stack back keeps its bottom part as it was.
LEMMA TruncateStack ==
    ASSUME NEW s \in Stack, NEW depth \in 1 .. Len(s.entries)
    PROVE  LET r == Truncate(s, depth) IN
           /\ r \in Stack /\ Len(r.entries) = depth
           /\ \A k \in 1 .. depth : r.entries[k] = s.entries[k]
           /\ \A l : IsPath(l, s) => IsPath(l, r)
           /\ \A n : Below(n, s) => Below(n, r)
           /\ Disjoint(s) => Disjoint(r)
<1> DEFINE r == Truncate(s, depth)
<1>1. r = [s EXCEPT !.entries = SubSeq(s.entries, 1, depth)]
  BY DEF Truncate
<1>2. /\ r.entries = SubSeq(s.entries, 1, depth) /\ r.entries \in Seq(Entry)
      /\ Len(r.entries) = depth
      /\ \A k \in 1 .. depth : r.entries[k] = s.entries[k]
  <2>1. r.entries = SubSeq(s.entries, 1, depth)
    BY <1>1 DEF Stack
  <2> QED BY <2>1, StackFacts, SubSeqProperties
<1>3. r \in Stack
  BY <1>1, <1>2 DEF Stack
<1>4. DOMAIN r.entries = 1 .. depth
  BY <1>2
<1>5. ASSUME NEW l, IsPath(l, s) PROVE IsPath(l, r)
  BY <1>2, <1>5, StackFacts DEF IsPath
<1>6. ASSUME NEW n, Below(n, s) PROVE Below(n, r)
  BY <1>2, <1>4, <1>6, StackFacts DEF Below
<1>7. ASSUME Disjoint(s) PROVE Disjoint(r)
  BY <1>2, <1>4, <1>7, StackFacts DEF Disjoint
<1> QED BY <1>2, <1>3, <1>5, <1>6, <1>7

\* Flags and scores are not part of the path.
LEMMA SameEntries ==
    ASSUME NEW s, NEW r, r.entries = s.entries
    PROVE  /\ \A l : IsPath(l, s) => IsPath(l, r)
           /\ \A n : Below(n, s) => Below(n, r)
           /\ Disjoint(s) => Disjoint(r)
BY DEF IsPath, Below, Disjoint
-----------------------------------------------------------------------------
\* The actions of one stack, in a state of the parse.

\* The last token of the input fetched so far.
Seen == IF AtEnd THEN Len(input) ELSE pos

LEMMA Tables ==
    ASSUME TypeOK
    PROVE  /\ IsLanguage(lang) /\ lang.initial \in Nat
           /\ input \in Seq(Symbols) /\ Len(input) \in Nat
           /\ pos \in 0 .. Len(input) + 1 /\ Seen \in 0 .. Len(input)
           /\ Seen <= pos /\ pos - 1 <= Seen
<1>1. program \in [lang : DOMAIN Languages, input : Seq(Symbols)]
  BY ProgramsAssumption DEF TypeOK
<1>2. program.lang \in DOMAIN Languages /\ input \in Seq(Symbols)
  BY <1>1 DEF input
<1>3. IsLanguage(lang)
  BY <1>2, LanguagesAssumption DEF lang
<1>4. Len(input) \in Nat /\ pos \in 0 .. Len(input) + 1
  BY <1>2 DEF TypeOK
<1> QED BY <1>2, <1>3, <1>4 DEF IsLanguage, Seen, AtEnd

LEMMA SymbolTyped ==
    ASSUME TypeOK, pos >= 1
    PROVE  Symbol \in Symbols /\ (Symbol # EndSymbol => pos <= Len(input) /\ ~ AtEnd)
<1>0. EndSymbol \in Symbols
  BY SymbolsAssumption
<1>1. CASE AtEnd
  BY <1>0, <1>1 DEF Symbol
<1>2. CASE ~ AtEnd
  <2>1. pos \in 1 .. Len(input)
    BY <1>2, Tables DEF AtEnd
  <2>2. input[pos] \in Symbols
    BY <2>1, Tables
  <2>3. Symbol = EndSymbol \/ Symbol = input[pos]
    BY DEF Symbol
  <2> QED BY <1>0, <1>2, <2>1, <2>2, <2>3
<1> QED BY <1>1, <1>2

LEMMA GotoIsState ==
    ASSUME NEW l, IsLanguage(l), NEW state \in Nat, NEW symbol
    PROVE  GotoState(l, state, symbol) \in Nat
BY DEF GotoState, IsLanguage

LEMMA ActionsTyped ==
    ASSUME TypeOK, NEW state \in Nat
    PROVE  /\ ActionsFor(state) \in Seq(Action)
           /\ \A k \in DOMAIN ActionsFor(state) :
                 /\ ActionsFor(state)[k] \in Action
                 /\ <<state, Symbol>> \in DOMAIN lang.action
                 /\ ActionsFor(state)[k] \in Alternatives(lang, <<state, Symbol>>)
                 /\ ActionsFor(state)[k].type = "shift" => Symbol # EndSymbol
<1> DEFINE cell == <<state, Symbol>>
<1>1. CASE cell \notin DOMAIN lang.action
  <2>1. ActionsFor(state) = << >>
    BY <1>1 DEF ActionsFor
  <2> QED BY <2>1
<1>2. CASE cell \in DOMAIN lang.action
  <2>1. ActionsFor(state) = lang.action[cell]
    BY <1>2 DEF ActionsFor
  <2>2. /\ lang.action[cell] \in Seq(Action)
        /\ \A k \in DOMAIN lang.action[cell] :
              cell[2] = EndSymbol => lang.action[cell][k].type # "shift"
    BY <1>2, Tables DEF IsLanguage
  <2>3. \A k \in DOMAIN lang.action[cell] :
            /\ lang.action[cell][k] \in Action
            /\ lang.action[cell][k] \in Alternatives(lang, cell)
    BY <2>2 DEF Alternatives
  <2> QED BY <1>2, <2>1, <2>2, <2>3
<1> QED BY <1>1, <1>2

\* Pushing a leaf for the current token.
LEMMA PushLeaf ==
    ASSUME TypeOK, pos >= 1, ~ AtEnd,
           NEW s, Sound(lang, Seen, s), NEW state \in Nat,
           NEW symbol \in Symbols, NEW extra \in BOOLEAN,
           Follows(lang, Top(s), [state |-> state, node |-> Leaf(symbol, extra)])
    PROVE  LET r == Push(s, state, Leaf(symbol, extra)) IN
           Sound(lang, Seen, r) /\ (Fresh(pos, s) => Disjoint(r))
<1> DEFINE node == Leaf(symbol, extra)
           r == Push(s, state, node)
<1>1. node \in Node /\ node.tokens = {pos} /\ Seen = pos
  BY Tables DEF Leaf, Node, Seen
<1>2. s \in Stack /\ IsPath(lang, s) /\ Below(Seen, s)
  BY DEF Sound
<1>3. r \in Stack /\ IsPath(lang, r)
  BY <1>1, <1>2, PushPath
<1>4. Below(Seen, r)
  <2>1. node.tokens \subseteq 1 .. Seen /\ Seen \in Int
    BY <1>1, Tables
  <2> QED BY <1>1, <1>2, <2>1, PushTokens
<1>5. ASSUME Fresh(pos, s) PROVE Disjoint(r)
  <2>1. \A k \in DOMAIN s.entries :
           \A a \in s.entries[k].node.tokens, b \in node.tokens : a < b
    BY <1>1, <1>5, Tables DEF Fresh, Below
  <2> QED BY <1>1, <1>2, <1>5, <2>1, PushTokens DEF Fresh
<1> QED BY <1>3, <1>4, <1>5 DEF Sound

\* A reduction pops to an entry above the bottom and takes no token.
LEMMA ReduceSound ==
    ASSUME TypeOK, NEW s, NEW n \in Nat, Sound(lang, n, s), NEW act \in Reduce
    PROVE  LET r == ReduceStack(s, act) IN
           Sound(lang, n, r) /\ \A m \in Int : Fresh(m, s) => Fresh(m, r)
<1> DEFINE r == ReduceStack(s, act)
<1>0. s \in Stack /\ IsPath(lang, s) /\ Below(n, s) /\ Len(s.entries) \in Nat
  BY StackFacts DEF Sound
<1>1. CASE PopStarts(s, act.count) = {}
  <2>1. r = [s EXCEPT !.dead = TRUE]
    BY <1>1 DEF ReduceStack
  <2>2. r \in Stack /\ r.entries = s.entries
    BY <1>0, <2>1 DEF Stack
  <2>3. /\ IsPath(lang, r) /\ Below(n, r)
        /\ \A m \in Int : Below(m - 1, s) => Below(m - 1, r)
        /\ Disjoint(s) => Disjoint(r)
    BY <1>0, <2>2, SameEntries
  <2> QED BY <2>2, <2>3 DEF Sound, Fresh
<1>2. CASE PopStarts(s, act.count) # {}
  <2> DEFINE from == CHOOSE k \in PopStarts(s, act.count) : TRUE
             kept == Truncate(s, from - 1)
             target == GotoState(lang, Top(kept), act.symbol)
             node == Parent(s, from, act)
             pushed == Push(kept, target, node)
  <2>1. from \in 2 .. Len(s.entries) + 1
    BY <1>2 DEF PopStarts
  <2>2. r = [pushed EXCEPT !.score = @ + act.prec]
    BY <1>2 DEF ReduceStack
  <2>3. /\ kept \in Stack /\ Len(kept.entries) = from - 1
        /\ \A k \in 1 .. from - 1 : kept.entries[k] = s.entries[k]
        /\ IsPath(lang, kept) /\ Below(n, kept)
        /\ \A m \in Int : Below(m - 1, s) => Below(m - 1, kept)
        /\ Disjoint(s) => Disjoint(kept)
    <3>1. from - 1 \in 1 .. Len(s.entries)
      BY <2>1, <1>0
    <3> HIDE DEF from
    <3> QED BY <1>0, <3>1, TruncateStack
  <2>4. act.symbol \in Symbols /\ act.prec \in Int
    BY DEF Reduce
  <2>5. target \in Nat
    BY <2>3, TopIsState, GotoIsState, Tables
  <2>6. node \in Node /\ node.symbol = act.symbol
        /\ node.tokens = UNION {s.entries[k].node.tokens : k \in from .. Len(s.entries)}
    <3> DEFINE popped == {s.entries[k].node.tokens : k \in from .. Len(s.entries)}
    <3>1. \A k \in from .. Len(s.entries) : s.entries[k].node.tokens \subseteq Nat \ {0}
      BY <1>0, <2>1, StackFacts
    <3>2. UNION popped \subseteq Nat \ {0}
      BY <3>1
    <3> HIDE DEF from
    <3> QED BY <2>4, <3>2 DEF Parent, Node
  <2>7. pushed \in Stack /\ IsPath(lang, pushed)
    <3>1. Follows(lang, Top(kept), [state |-> target, node |-> node])
      BY <2>6 DEF Follows
    <3> HIDE DEF kept, target, node
    <3> QED BY <2>3, <2>5, <2>6, <3>1, PushPath
  <2>8. ASSUME NEW m \in Int, Below(m, s), Below(m, kept)
        PROVE  Below(m, pushed)
    <3>1. node.tokens \subseteq 1 .. m
      <4>1. \A k \in from .. Len(s.entries) : k \in DOMAIN s.entries
        BY <1>0, <2>1, StackFacts
      <4>2. \A k \in from .. Len(s.entries) : s.entries[k].node.tokens \subseteq 1 .. m
        BY <4>1, <2>8 DEF Below
      <4> HIDE DEF node, from
      <4> QED BY <4>2, <2>6
    <3> HIDE DEF kept, target, node
    <3> QED BY <2>3, <2>5, <2>6, <2>8, <3>1, PushTokens
  <2>9. ASSUME Disjoint(s)
        PROVE  Disjoint(pushed)
    <3>1. ASSUME NEW k \in DOMAIN kept.entries,
                 NEW a \in kept.entries[k].node.tokens, NEW b \in node.tokens
          PROVE  a < b
      <4>1. k \in 1 .. from - 1 /\ a \in s.entries[k].node.tokens
        BY <2>3, StackFacts
      <4>2. PICK j \in from .. Len(s.entries) : b \in s.entries[j].node.tokens
        BY <2>6
      <4>3. j \in DOMAIN s.entries /\ k \in 1 .. j - 1
        BY <4>1, <4>2, <2>1, <1>0, StackFacts
      <4> QED BY <4>1, <4>2, <4>3, <2>9 DEF Disjoint
    <3> HIDE DEF kept, target, node
    <3> QED BY <2>3, <2>5, <2>6, <2>9, <3>1, PushTokens
  <2>10. r \in Stack /\ r.entries = pushed.entries
    <3> HIDE DEF pushed
    <3> QED BY <2>2, <2>4, <2>7 DEF Stack
  <2>11. /\ IsPath(lang, r) /\ (\A m : Below(m, pushed) => Below(m, r))
         /\ (Disjoint(pushed) => Disjoint(r))
    BY <2>7, <2>10, SameEntries
  <2>12. Below(n, r)
    BY <1>0, <2>3, <2>8, <2>11
  <2>13. ASSUME NEW m \in Int, Fresh(m, s) PROVE Fresh(m, r)
    <3>1. Below(m - 1, s) /\ Below(m - 1, kept) /\ m - 1 \in Int
      <4>1. Below(m - 1, s) /\ m - 1 \in Int
        BY <2>13 DEF Fresh
      <4> HIDE DEF kept
      <4> QED BY <2>3, <4>1
    <3>2. Below(m - 1, pushed)
      BY <3>1, <2>8
    <3> QED BY <3>2, <2>9, <2>11, <2>13 DEF Fresh
  <2> QED BY <2>10, <2>11, <2>12, <2>13 DEF Sound
<1> QED BY <1>1, <1>2

LEMMA RecoverSound ==
    ASSUME TypeOK, pos >= 1, NEW s, Sound(lang, Seen, s),
           NEW act \in Recover, act.state = 0 \/ act.state \in RecoveryStates(lang)
    PROVE  LET r == RecoverStack(s, act) IN
           /\ Sound(lang, Seen, r)
           /\ Fresh(pos, s) => Disjoint(r)
           /\ Fresh(pos, s) /\ AtEnd => Fresh(pos, r)
<1> DEFINE r == RecoverStack(s, act)
<1>0. s \in Stack /\ IsPath(lang, s) /\ Below(Seen, s) /\ act.state \in Nat
  BY DEF Sound, Recover
<1>1. CASE AtEnd
  <2>1. r = [s EXCEPT !.accepted = TRUE]
    BY <1>1 DEF RecoverStack
  <2>2. r \in Stack /\ r.entries = s.entries
    BY <1>0, <2>1 DEF Stack
  <2> QED BY <1>0, <2>2, SameEntries DEF Sound, Fresh
<1>2. CASE ~ AtEnd
  <2> DEFINE state == IF act.state = 0 THEN Top(s) ELSE act.state
             leaf == Leaf(ErrorSymbol, FALSE)
  <2>1. r = Push(s, state, leaf)
    BY <1>2 DEF RecoverStack
  <2>2. state \in Nat
    BY <1>0, TopIsState
  <2>3. leaf.symbol = ErrorSymbol /\ leaf.error = TRUE
    BY DEF Leaf
  <2>4. Follows(lang, Top(s), [state |-> state, node |-> leaf])
    <3>1. state = Top(s) \/ state \in RecoveryStates(lang)
      OBVIOUS
    <3> HIDE DEF state, leaf
    <3> QED BY <2>3, <3>1 DEF Follows
  <2>5. ErrorSymbol \in Symbols
    BY SymbolsAssumption
  <2> HIDE DEF state
  <2> QED BY <1>2, <2>1, <2>2, <2>4, <2>5, PushLeaf
<1> QED BY <1>1, <1>2

LEMMA AppliedSound ==
    ASSUME TypeOK, pos >= 1, NEW s, Sound(lang, Seen, s),
           NEW k \in DOMAIN ActionsFor(Top(s))
    PROVE  LET act == ActionsFor(Top(s))[k]
               r == Applied(s, act) IN
           /\ Sound(lang, Seen, r)
           /\ Fresh(pos, s) => Disjoint(r)
           /\ Fresh(pos, s) /\ ~ Consumes(act) => Fresh(pos, r)
<1> DEFINE act == ActionsFor(Top(s))[k]
           r == Applied(s, act)
<1>0. s \in Stack /\ IsPath(lang, s) /\ Below(Seen, s) /\ Top(s) \in Nat
  BY TopIsState DEF Sound
<1>1. /\ act \in Action /\ <<Top(s), Symbol>> \in DOMAIN lang.action
      /\ act \in Alternatives(lang, <<Top(s), Symbol>>)
      /\ act.type = "shift" => Symbol # EndSymbol
  BY <1>0, ActionsTyped
<1> SUFFICES /\ Sound(lang, Seen, r)
             /\ Fresh(pos, s) => Disjoint(r)
             /\ Fresh(pos, s) /\ ~ Consumes(act) => Fresh(pos, r)
  OBVIOUS
<1> HIDE DEF act
<1>2. CASE act \in Shift
  <2>1. /\ act.type = "shift" /\ act.state \in Nat /\ act.extra \in BOOLEAN
    BY <1>2 DEF Shift
  <2>2. r = Push(s, act.state, Leaf(Symbol, act.extra))
    BY <2>1 DEF Applied
  <2>3. ~ AtEnd /\ Symbol \in Symbols
    BY <1>1, <2>1, SymbolTyped
  <2>4. Leaf(Symbol, act.extra).symbol = Symbol
    BY DEF Leaf
  <2>5. Follows(lang, Top(s), [state |-> act.state, node |-> Leaf(Symbol, act.extra)])
    BY <1>1, <2>1, <2>4 DEF Follows
  <2>6. Consumes(act)
    BY <2>1 DEF Consumes
  <2> QED BY <2>1, <2>2, <2>3, <2>5, <2>6, PushLeaf
<1>3. CASE act \in Reduce
  <2>1. act.type = "reduce"
    BY <1>3 DEF Reduce
  <2>2. r = ReduceStack(s, act)
    BY <2>1 DEF Applied
  <2>3. Seen \in Nat /\ pos \in Int
    BY Tables
  <2>4. Sound(lang, Seen, r) /\ \A m \in Int : Fresh(m, s) => Fresh(m, r)
    BY <1>3, <2>2, <2>3, ReduceSound
  <2> QED BY <2>3, <2>4 DEF Fresh
<1>4. CASE act \in Accept
  <2>1. act.type = "accept"
    BY <1>4 DEF Accept
  <2>2. r = [s EXCEPT !.accepted = TRUE]
    BY <2>1 DEF Applied
  <2>3. r \in Stack /\ r.entries = s.entries
    BY <1>0, <2>2 DEF Stack
  <2> QED BY <1>0, <2>3, SameEntries DEF Sound, Fresh
<1>5. CASE act \in Recover
  <2>1. act.type = "recover"
    BY <1>5 DEF Recover
  <2>2. r = RecoverStack(s, act)
    BY <2>1 DEF Applied
  <2>3. act.state \in RecoveryStates(lang)
    BY <1>1, <2>1 DEF RecoveryStates
  <2>4. ~ Consumes(act) => AtEnd
    BY <2>1 DEF Consumes
  <2> QED BY <1>5, <2>2, <2>3, <2>4, RecoverSound
<1> QED BY <1>1, <1>2, <1>3, <1>4, <1>5 DEF Action
-----------------------------------------------------------------------------
\* The inductive invariant.

RoundShape ==
    /\ phase = "stacks" => /\ stacks # << >> /\ numStacks <= Len(stacks)
                           /\ merged = << >> /\ pos >= 1
    /\ phase = "merge" /\ ~ needToken => pos >= 1

AllSound ==
    /\ \A k \in DOMAIN stacks : Sound(lang, Seen, stacks[k])
    /\ \A k \in DOMAIN merged : Sound(lang, Seen, merged[k])

InStep == "outOfStep" \notin incidents

AllInOrder ==
    InStep => /\ \A k \in DOMAIN stacks : Disjoint(stacks[k])
              /\ \A k \in DOMAIN merged : Disjoint(merged[k])

\* A token that is kept was taken by no stack; during a round, the stacks
\* still to come have not taken it, and none has if taken is FALSE.
AllFresh ==
    InStep =>
       /\ phase = "merge" /\ ~ needToken =>
             /\ \A k \in DOMAIN stacks : Fresh(pos, stacks[k])
             /\ \A k \in DOMAIN merged : Fresh(pos, merged[k])
       /\ phase = "stacks" =>
             \A k \in DOMAIN stacks :
                k \in si .. numStacks \/ ~ taken => Fresh(pos, stacks[k])

IInv == TypeOK /\ RoundShape /\ AllSound /\ AllInOrder /\ AllFresh

LEMMA InitIInv == Init => IInv
<1> SUFFICES ASSUME Init PROVE IInv
  OBVIOUS
<1> DEFINE s == NewStack(lang.initial)
<1>1. program \in [lang : DOMAIN Languages, input : Seq(Symbols)]
  BY ProgramsAssumption DEF Init
<1>2. lang.initial \in Nat /\ Len(input) \in Nat
  BY <1>1, LanguagesAssumption DEF lang, input, IsLanguage
<1>3. NoNode \in Node
  BY SymbolsAssumption DEF NoNode, Node
<1>4. s.entries = << [state |-> lang.initial, node |-> NoNode] >> /\ s \in Stack
  BY <1>2, <1>3 DEF NewStack, Stack, Entry
<1>5. /\ Len(s.entries) = 1 /\ s.entries[1].state = lang.initial
      /\ s.entries[1].node.tokens = {} /\ DOMAIN s.entries = {1}
  BY <1>4 DEF NoNode
<1>6. /\ stacks = << s >> /\ stacks \in Seq(Stack)
      /\ merged = << >> /\ merged \in Seq(Stack)
  BY <1>4 DEF Init
<1> HIDE DEF s
<1>7. TypeOK
  <2>1. program \in Programs /\ pos \in 0 .. Len(input) + 1
    BY <1>2 DEF Init
  <2>2. /\ needToken \in BOOLEAN /\ anyReduced \in BOOLEAN /\ taken \in BOOLEAN
    BY DEF Init
  <2>3. /\ si \in Nat \ {0} /\ numStacks \in Nat /\ lastReduceState \in Nat
        /\ consecutiveReduces \in Nat /\ iterations \in Nat /\ nodeCount \in Nat
    BY DEF Init
  <2>4. /\ phase \in {"merge", "stacks", "done"} /\ incidents = {}
    BY DEF Init
  <2> QED BY <1>6, <2>1, <2>2, <2>3, <2>4 DEF TypeOK
<1>8. IsPath(lang, s) /\ Disjoint(s) /\ \A n : Below(n, s)
  BY <1>5 DEF IsPath, Disjoint, Below
<1>9. AllSound /\ AllInOrder
  BY <1>4, <1>6, <1>8 DEF AllSound, AllInOrder, Sound
<1>10. RoundShape /\ AllFresh
  BY <1>6 DEF Init, RoundShape, AllFresh
<1> QED BY <1>7, <1>9, <1>10 DEF IInv

LEMMA SameProgram ==
    ASSUME program' = program
    PROVE  /\ lang' = lang /\ input' = input
           /\ pos' = pos => Seen' = Seen /\ (AtEnd' <=> AtEnd)
BY DEF lang, input, Seen, AtEnd

\* Merging adds a stack to the result, or puts one in another's place.
LEMMA MergeKeeps ==
    ASSUME IInv, MergeStack
    PROVE  IInv'
<1> DEFINE s == stacks[si]
           twin == CHOOSE k \in SameTop(s) : TRUE
<1>1. /\ si \in DOMAIN stacks /\ s \in Stack /\ phase = "merge" /\ phase' = "merge"
      /\ si' = si + 1 /\ UNCHANGED <<program, pos, needToken, stacks, numStacks,
            anyReduced, lastReduceState, consecutiveReduces, iterations, nodeCount, taken>>
  BY DEF IInv, TypeOK, MergeStack, token, reduces
<1>2. lang' = lang /\ input' = input /\ Seen' = Seen
  BY <1>1, SameProgram
<1>3. /\ merged' \in Seq(Stack)
      /\ \A k \in DOMAIN merged' :
            merged'[k] = s \/ (k \in DOMAIN merged /\ merged'[k] = merged[k])
  <2>0. merged \in Seq(Stack)
    BY DEF IInv, TypeOK
  <2>1. CASE merged' = merged
    BY <2>0, <2>1
  <2>2. CASE merged' = Append(merged, s)
    <3> HIDE DEF s
    <3> QED BY <1>1, <2>0, <2>2, AppendProperties
  <2>3. CASE SameTop(s) # {} /\ merged' = [merged EXCEPT ![twin] = s]
    <3>1. twin \in DOMAIN merged
      BY <2>3 DEF SameTop
    <3> HIDE DEF s, twin
    <3> QED BY <1>1, <2>0, <2>3, <3>1
  <2> QED BY <2>1, <2>2, <2>3 DEF MergeStack
<1>4. incidents \subseteq incidents' /\ (InStep' => InStep)
      /\ incidents' \subseteq incidents \cup {"mergedApart"}
  BY DEF MergeStack, InStep
<1>5. TypeOK'
  BY <1>1, <1>2, <1>3, <1>4 DEF IInv, TypeOK
<1>6. RoundShape'
  BY <1>1 DEF IInv, RoundShape
<1>7. AllSound'
  BY <1>1, <1>2, <1>3 DEF IInv, AllSound
<1>8. AllInOrder'
  BY <1>1, <1>3, <1>4 DEF IInv, AllInOrder
<1>9. AllFresh'
  BY <1>1, <1>3, <1>4 DEF IInv, AllFresh
<1> QED BY <1>5, <1>6, <1>7, <1>8, <1>9 DEF IInv

\* Returning changes nothing but the phase and drops stacks at most.
LEMMA FinishKeeps ==
    ASSUME IInv, NEW result, Finish(result),
           stacks' \in Seq(Stack),
           \A k \in DOMAIN stacks' :
              (\E j \in DOMAIN stacks : stacks'[k] = stacks[j])
              \/ (\E j \in DOMAIN merged : stacks'[k] = merged[j]),
           incidents \subseteq incidents',
           incidents' \subseteq incidents \cup {"limit", "othersCutShort"}
    PROVE  IInv'
<1>1. /\ phase' = "done"
      /\ UNCHANGED <<program, pos, needToken, merged, si, numStacks, anyReduced,
            lastReduceState, consecutiveReduces, iterations, nodeCount, taken>>
  BY DEF Finish, token, reduces
<1>2. lang' = lang /\ input' = input /\ Seen' = Seen
  BY <1>1, SameProgram
<1>3. TypeOK'
  BY <1>1, <1>2 DEF IInv, TypeOK
<1>4. RoundShape' /\ AllFresh'
  BY <1>1 DEF RoundShape, AllFresh
<1>5. AllSound'
  BY <1>1, <1>2 DEF IInv, AllSound
<1>6. AllInOrder'
  BY <1>1 DEF IInv, AllInOrder, InStep
<1> QED BY <1>3, <1>4, <1>5, <1>6 DEF IInv

LEMMA CappedStacks ==
    ASSUME TypeOK, merged # << >>
    PROVE  /\ Capped \in Seq(Stack) /\ Capped # << >>
           /\ \A k \in DOMAIN Capped : k \in DOMAIN merged /\ Capped[k] = merged[k]
<1> DEFINE n == IF Len(merged) > MaxStacks THEN MaxStacks ELSE Len(merged)
<1>1. merged \in Seq(Stack) /\ Len(merged) \in Nat /\ Len(merged) > 0
  BY DEF TypeOK
<1>2. n \in 1 .. Len(merged)
  BY <1>1, LimitsAssumption
<1>3. Capped = SubSeq(merged, 1, n)
  BY DEF Capped
<1> HIDE DEF n
<1>4. /\ Capped \in Seq(Stack) /\ Len(Capped) = n
      /\ \A k \in 1 .. n : Capped[k] = merged[k]
  BY <1>1, <1>2, <1>3, SubSeqProperties
<1> QED BY <1>1, <1>2, <1>4

\* A round starts with stacks that have not taken its token.
LEMMA StartRoundKeeps ==
    ASSUME IInv, StartRound
    PROVE  IInv'
<1>0. TypeOK /\ RoundShape /\ AllSound /\ AllInOrder /\ AllFresh
  BY DEF IInv
<1>1. /\ phase = "merge" /\ phase' = "stacks" /\ merged # << >>
      /\ stacks' = Capped /\ numStacks' = Len(stacks') /\ si' = 1
      /\ merged' = << >> /\ anyReduced' = FALSE /\ taken' = FALSE
      /\ pos' = IF needToken /\ ~ AtEnd THEN pos + 1 ELSE pos
      /\ UNCHANGED <<program, needToken, lastReduceState, consecutiveReduces,
                     iterations, nodeCount>>
  BY DEF StartRound, Merged, reduces
<1>2. /\ stacks' \in Seq(Stack) /\ stacks' # << >> /\ merged' \in Seq(Stack)
      /\ \A k \in DOMAIN stacks' : k \in DOMAIN merged /\ stacks'[k] = merged[k]
  BY <1>0, <1>1, CappedStacks
<1>3. incidents \subseteq incidents' /\ incidents' \subseteq incidents \cup {"stacksCapped"}
  BY DEF StartRound
<1>4. lang' = lang /\ input' = input
  BY <1>1, SameProgram
<1>5. /\ pos \in 0 .. Len(input) + 1 /\ Len(input) \in Nat
      /\ Seen \in 0 .. Len(input)
  BY <1>0, Tables
<1>6. /\ pos' \in 0 .. Len(input) + 1 /\ pos' >= 1
      /\ Seen' \in 0 .. Len(input) /\ Seen <= Seen'
      /\ needToken => pos' - 1 = Seen
      /\ ~ needToken => pos' = pos
  BY <1>0, <1>1, <1>4, <1>5 DEF Seen, AtEnd, RoundShape
<1>7. TypeOK'
  <2>1. Len(stacks') \in Nat /\ phase' \in {"merge", "stacks", "done"}
    BY <1>1, <1>2
  <2>2. incidents' \subseteq {"mergedApart", "stacksCapped", "limit", "outOfStep",
                            "lookaheadDropped", "othersCutShort"}
    BY <1>0, <1>3 DEF TypeOK
  <2>3. /\ si' \in Nat \ {0} /\ numStacks' \in Nat
        /\ anyReduced' \in BOOLEAN /\ taken' \in BOOLEAN
    <3>1. si' \in Nat \ {0} /\ numStacks' \in Nat
      BY <1>1, <2>1
    <3>2. anyReduced' \in BOOLEAN /\ taken' \in BOOLEAN
      BY <1>1, Zenon
    <3> QED BY <3>1, <3>2
  <2>4. /\ program' \in Programs /\ needToken' \in BOOLEAN
        /\ lastReduceState' \in Nat /\ consecutiveReduces' \in Nat
        /\ iterations' \in Nat /\ nodeCount' \in Nat
    BY <1>0, <1>1 DEF TypeOK
  <2> QED BY <1>2, <1>4, <1>6, <2>1, <2>2, <2>3, <2>4 DEF TypeOK
<1>8. RoundShape'
  BY <1>1, <1>2, <1>6 DEF RoundShape
<1>9. \A k \in DOMAIN stacks' : Sound(lang, Seen', stacks'[k])
  BY <1>0, <1>2, <1>5, <1>6, BelowGrows DEF AllSound, Sound
<1>10. AllSound'
  BY <1>1, <1>4, <1>9 DEF AllSound
<1>11. AllInOrder'
  BY <1>0, <1>1, <1>2, <1>3 DEF AllInOrder, InStep
<1>12. ASSUME InStep, NEW k \in DOMAIN merged PROVE Fresh(pos', merged[k])
  <2>1. CASE needToken
    BY <2>1, <1>0, <1>6, <1>12 DEF Fresh, AllInOrder, AllSound, Sound
  <2>2. CASE ~ needToken
    BY <2>2, <1>0, <1>1, <1>6, <1>12 DEF AllFresh
  <2> QED BY <2>1, <2>2
<1>13. AllFresh'
  BY <1>1, <1>2, <1>3, <1>12 DEF AllFresh, InStep
<1> QED BY <1>7, <1>8, <1>10, <1>11, <1>13 DEF IInv

\* One turn: the stack at si becomes s, its forks come behind the others.
LEMMA ContinueKeeps ==
    ASSUME IInv, Turn, NEW s, NEW forks, NEW allocated \in Nat,
           Continue(s, forks, allocated),
           Sound(lang, Seen, s), forks \in Seq(Stack),
           \A k \in DOMAIN forks : Sound(lang, Seen, forks[k]),
           anyReduced' \in BOOLEAN, taken' \in BOOLEAN, taken => taken',
           Fresh(pos, s0) =>
              /\ Disjoint(s) /\ \A k \in DOMAIN forks : Disjoint(forks[k])
              /\ ~ taken' => /\ Fresh(pos, s)
                             /\ \A k \in DOMAIN forks : Fresh(pos, forks[k])
    PROVE  IInv'
<1>0. TypeOK /\ RoundShape /\ AllSound /\ AllInOrder /\ AllFresh
  BY DEF IInv
<1>1. /\ phase = "stacks" /\ phase' = "stacks" /\ si <= numStacks
      /\ stacks' = [stacks EXCEPT ![si] = s] \o forks
      /\ nodeCount' = nodeCount + allocated /\ si' = si + 1
      /\ UNCHANGED <<program, pos, needToken, merged, numStacks, lastReduceState,
                     consecutiveReduces, iterations, incidents>>
  BY DEF Turn, Continue, token, reduces
<1>2. /\ stacks \in Seq(Stack) /\ si \in Nat \ {0} /\ numStacks \in Nat
      /\ numStacks <= Len(stacks) /\ si \in 1 .. Len(stacks) /\ s \in Stack
      /\ Len(stacks) \in Nat /\ DOMAIN stacks = 1 .. Len(stacks)
  BY <1>0, <1>1 DEF TypeOK, RoundShape, Sound
<1>3. /\ stacks' \in Seq(Stack) /\ Len(stacks') = Len(stacks) + Len(forks)
      /\ DOMAIN stacks' = 1 .. Len(stacks) + Len(forks) /\ Len(forks) \in Nat
      /\ \A k \in 1 .. Len(stacks) : stacks'[k] = IF k = si THEN s ELSE stacks[k]
      /\ \A k \in Len(stacks) + 1 .. Len(stacks) + Len(forks) :
            k - Len(stacks) \in DOMAIN forks /\ stacks'[k] = forks[k - Len(stacks)]
  <2> DEFINE turned == [stacks EXCEPT ![si] = s]
  <2>1. /\ turned \in Seq(Stack) /\ Len(turned) = Len(stacks)
        /\ \A k \in 1 .. Len(stacks) : turned[k] = IF k = si THEN s ELSE stacks[k]
    BY <1>2
  <2>2. stacks' = turned \o forks
    BY <1>1
  <2> HIDE DEF turned
  <2>3. Len(forks) \in Nat /\ DOMAIN forks = 1 .. Len(forks)
    OBVIOUS
  <2>4. /\ stacks' \in Seq(Stack) /\ Len(stacks') = Len(stacks) + Len(forks)
        /\ \A k \in 1 .. Len(stacks) + Len(forks) :
              stacks'[k] = IF k <= Len(stacks) THEN turned[k]
                                               ELSE forks[k - Len(stacks)]
    <3>1. /\ turned \o forks \in Seq(Stack)
          /\ Len(turned \o forks) = Len(turned) + Len(forks)
          /\ \A k \in 1 .. Len(turned) + Len(forks) :
                (turned \o forks)[k] = IF k <= Len(turned) THEN turned[k]
                                                 ELSE forks[k - Len(turned)]
      BY <2>1, ConcatProperties
    <3> QED BY <2>1, <2>2, <3>1
  <2>5. /\ DOMAIN stacks' = 1 .. Len(stacks) + Len(forks)
        /\ \A k \in 1 .. Len(stacks) : stacks'[k] = IF k = si THEN s ELSE stacks[k]
    BY <1>2, <2>1, <2>3, <2>4
  <2>6. \A k \in Len(stacks) + 1 .. Len(stacks) + Len(forks) :
            k - Len(stacks) \in DOMAIN forks /\ stacks'[k] = forks[k - Len(stacks)]
    BY <1>2, <2>3, <2>4
  <2> QED BY <2>3, <2>4, <2>5, <2>6
<1>4. lang' = lang /\ input' = input /\ Seen' = Seen
  BY <1>1, SameProgram
<1>5. TypeOK'
  BY <1>0, <1>1, <1>3, <1>4 DEF TypeOK
<1>6. RoundShape'
  BY <1>0, <1>1, <1>2, <1>3 DEF RoundShape
<1>7. \A k \in DOMAIN stacks' : Sound(lang, Seen, stacks'[k])
  BY <1>0, <1>2, <1>3 DEF AllSound
<1>8. AllSound'
  BY <1>0, <1>1, <1>4, <1>7 DEF AllSound
<1>9. InStep => Fresh(pos, s0)
  <2>1. si \in si .. numStacks /\ si \in DOMAIN stacks
    BY <1>1, <1>2
  <2> QED BY <2>1, <1>0, <1>1 DEF AllFresh, s0
<1>10. InStep' => InStep
  BY <1>1 DEF InStep
<1>11. AllInOrder'
  <2>1. ASSUME InStep PROVE \A k \in DOMAIN stacks' : Disjoint(stacks'[k])
    BY <1>0, <1>2, <1>3, <1>9, <2>1 DEF AllInOrder
  <2>2. ASSUME InStep PROVE \A k \in DOMAIN merged : Disjoint(merged[k])
    BY <1>0, <2>2 DEF AllInOrder
  <2> QED BY <1>1, <1>10, <2>1, <2>2 DEF AllInOrder
<1>12. AllFresh'
  <2> SUFFICES ASSUME InStep', NEW k \in DOMAIN stacks',
                      k \in si' .. numStacks' \/ ~ taken'
               PROVE  Fresh(pos', stacks'[k])
    BY <1>1 DEF AllFresh
  <2>1. CASE k \in si' .. numStacks'
    <3>1. k \in si .. numStacks /\ k # si /\ k \in DOMAIN stacks
      BY <2>1, <1>1, <1>2
    <3>2. Fresh(pos, stacks[k])
      BY <3>1, <1>0, <1>1, <1>10 DEF AllFresh
    <3> QED BY <3>1, <3>2, <1>1, <1>2, <1>3
  <2>2. CASE ~ taken' /\ k \in 1 .. Len(stacks)
    <3>1. k # si => Fresh(pos, stacks[k])
      BY <2>2, <1>0, <1>1, <1>2, <1>10 DEF AllFresh
    <3> QED BY <2>2, <3>1, <1>1, <1>3, <1>9, <1>10
  <2>3. CASE ~ taken' /\ k \in Len(stacks) + 1 .. Len(stacks) + Len(forks)
    BY <2>3, <1>1, <1>3, <1>9, <1>10
  <2> QED BY <2>1, <2>2, <2>3, <1>2, <1>3
<1> QED BY <1>5, <1>6, <1>8, <1>11, <1>12 DEF IInv

LEMMA TurnFacts ==
    ASSUME IInv, Turn
    PROVE  /\ TypeOK /\ pos >= 1 /\ Sound(lang, Seen, s0) /\ s0 \in Stack
           /\ Top(s0) \in Nat /\ IsPath(lang, s0)
           /\ ~ AtEnd => Seen = pos
           /\ taken \in BOOLEAN /\ anyReduced \in BOOLEAN
<1>1. TypeOK /\ pos >= 1 /\ si \in DOMAIN stacks
  BY DEF IInv, Turn, RoundShape, TypeOK
<1>2. Sound(lang, Seen, s0)
  BY <1>1 DEF IInv, AllSound, s0
<1> QED BY <1>1, <1>2, TopIsState DEF Sound, Seen, TypeOK

LEMMA NonEmptySeq ==
    ASSUME NEW S, NEW q \in Seq(S), q # << >>
    PROVE  /\ Len(q) \in Nat /\ Len(q) > 0 /\ DOMAIN q = 1 .. Len(q)
           /\ 1 \in DOMAIN q /\ 1 \in 1 .. Len(q)
OBVIOUS

LEMMA NoForks == << >> \in Seq(Stack) /\ DOMAIN << >> = {}
OBVIOUS

\* An extra or an unexpected token is pushed and leaves the state.
LEMMA LeafAtTop ==
    ASSUME IInv, Turn, Symbol # EndSymbol, NEW symbol \in Symbols,
           NEW extra \in BOOLEAN, extra \/ symbol = ErrorSymbol,
           Continue(Push(s0, Top(s0), Leaf(symbol, extra)), << >>, 1),
           taken' = TRUE, UNCHANGED anyReduced
    PROVE  IInv'
<1> DEFINE leaf == Leaf(symbol, extra)
           r == Push(s0, Top(s0), leaf)
<1>1. ~ AtEnd
  BY TurnFacts, SymbolTyped
<1>2. leaf.symbol = symbol /\ leaf.extra = extra /\ leaf.error = (symbol = ErrorSymbol)
  BY DEF Leaf
<1>3. Follows(lang, Top(s0), [state |-> Top(s0), node |-> leaf])
  BY <1>2 DEF Follows
<1>4. Sound(lang, Seen, r) /\ (Fresh(pos, s0) => Disjoint(r))
  BY <1>1, <1>3, TurnFacts, PushLeaf
<1>5. taken' \in BOOLEAN /\ anyReduced' \in BOOLEAN /\ (taken => taken')
  BY TurnFacts
<1> HIDE DEF r
<1>6. Continue(r, << >>, 1)
  BY DEF r
<1> QED BY <1>4, <1>5, <1>6, NoForks, ContinueKeeps

LEMMA ShiftExtraKeeps ==
    ASSUME IInv, ShiftExtra
    PROVE  IInv'
<1>1. Turn /\ acts0 # << >> /\ acts0[1].type = "shift"
  BY DEF ShiftExtra, IsExtraShift
<1>2. Symbol # EndSymbol /\ Symbol \in Symbols
  <2>1. acts0 \in Seq(Action) /\ 1 \in DOMAIN acts0
    <3>1. acts0 \in Seq(Action)
      BY <1>1, TurnFacts, ActionsTyped DEF acts0
    <3> QED BY <1>1, <3>1, NonEmptySeq
  <2> QED BY <1>1, <2>1, TurnFacts, ActionsTyped, SymbolTyped DEF acts0
<1> QED BY <1>1, <1>2, LeafAtTop DEF ShiftExtra

LEMMA WrapErrorKeeps ==
    ASSUME IInv, WrapError
    PROVE  IInv'
<1>1. Turn /\ Symbol # EndSymbol /\ ErrorSymbol \in Symbols
  BY SymbolsAssumption DEF WrapError, Stuck
<1> QED BY <1>1, LeafAtTop DEF WrapError

LEMMA StayKeeps ==
    ASSUME IInv, Turn, NEW s, s \in Stack, s.entries = s0.entries,
           Continue(s, << >>, 0), UNCHANGED <<anyReduced, taken>>
    PROVE  IInv'
<1>1. Sound(lang, Seen, s) /\ (Fresh(pos, s0) => Fresh(pos, s) /\ Disjoint(s))
  BY TurnFacts, SameEntries DEF Sound, Fresh
<1>2. taken' \in BOOLEAN /\ anyReduced' \in BOOLEAN /\ (taken => taken')
  BY TurnFacts
<1> QED BY <1>1, <1>2, NoForks, ContinueKeeps

LEMMA DropStackKeeps ==
    ASSUME IInv, DropStack
    PROVE  IInv'
<1> DEFINE s == [s0 EXCEPT !.dead = TRUE]
<1>1. Turn /\ s0 \in Stack
  BY TurnFacts DEF DropStack, Stuck
<1>2. s \in Stack /\ s.entries = s0.entries
  BY <1>1 DEF Stack
<1> QED BY <1>1, <1>2, StayKeeps DEF DropStack

LEMMA SkipGapKeeps ==
    ASSUME IInv, SkipGap
    PROVE  IInv'
<1>1. Turn /\ s0 \in Stack
  BY TurnFacts DEF SkipGap, Stuck
<1> QED BY <1>1, StayKeeps DEF SkipGap

\* Recovery cuts the stack back to the nearest state that has a recover
\* action and pushes the token there.
LEMMA RecoverKeeps ==
    ASSUME IInv, RecoverOnStack
    PROVE  IInv'
<1> DEFINE depth == Nearest(RecoverDepths(s0))
           kept == Truncate(s0, depth)
           act == FirstRecover(Top(kept))
           r == RecoverStack(kept, act)
<1>1. /\ Turn /\ Symbol # EndSymbol /\ RecoverDepths(s0) # {}
      /\ Continue(r, << >>, 1) /\ taken' = TRUE /\ anyReduced' = anyReduced
  BY DEF RecoverOnStack, Stuck
<1>2. /\ TypeOK /\ pos >= 1 /\ s0 \in Stack /\ Sound(lang, Seen, s0)
      /\ IsPath(lang, s0) /\ anyReduced \in BOOLEAN
  BY <1>1, TurnFacts
<1>3. depth \in RecoverDepths(s0)
  <2>1. RecoverDepths(s0) \subseteq 0 .. Len(s0.entries) /\ Len(s0.entries) \in Nat
    BY <1>2, StackFacts DEF RecoverDepths
  <2>2. \E d \in RecoverDepths(s0) : \A e \in RecoverDepths(s0) : e <= d
    BY <1>1, <2>1, GreatestElement
  <2> QED BY <2>2 DEF Nearest
<1>4. depth \in 1 .. Len(s0.entries) /\ RecoverActions(s0.entries[depth].state) # {}
  BY <1>3 DEF RecoverDepths
<1> HIDE DEF depth
<1>5. /\ kept \in Stack /\ IsPath(lang, kept) /\ Sound(lang, Seen, kept)
      /\ Fresh(pos, s0) => Fresh(pos, kept)
      /\ Top(kept) = s0.entries[depth].state /\ Top(kept) \in Nat
  <2>1. /\ kept \in Stack /\ IsPath(lang, kept) /\ Len(kept.entries) = depth
        /\ kept.entries[depth] = s0.entries[depth]
        /\ \A n : Below(n, s0) => Below(n, kept)
        /\ Disjoint(s0) => Disjoint(kept)
    BY <1>2, <1>4, TruncateStack
  <2> HIDE DEF kept
  <2> QED BY <1>2, <2>1, TopIsState DEF Sound, Fresh, Top
<1> HIDE DEF kept
<1>6. /\ act \in Recover /\ act.state \in RecoveryStates(lang)
  <2> DEFINE acts == ActionsFor(Top(kept))
             ks == RecoverActions(Top(kept))
  <2>1. /\ acts \in Seq(Action) /\ DOMAIN acts \subseteq Nat
        /\ \A k \in DOMAIN acts :
              /\ acts[k] \in Action /\ <<Top(kept), Symbol>> \in DOMAIN lang.action
              /\ acts[k] \in Alternatives(lang, <<Top(kept), Symbol>>)
    BY <1>2, <1>5, ActionsTyped
  <2>2. ks # {} /\ ks \subseteq DOMAIN acts
    BY <1>4, <1>5 DEF RecoverActions
  <2>3. \E k \in ks : \A j \in ks : k <= j
    BY <2>1, <2>2, LeastElement
  <2>4. PICK k \in ks : act = acts[k]
    <3> DEFINE first == CHOOSE k \in ks : \A j \in ks : k <= j
    <3>1. first \in ks
      BY <2>3
    <3>2. act = acts[first]
      BY DEF FirstRecover
    <3> QED BY <3>1, <3>2
  <2>5. k \in DOMAIN acts /\ act.type = "recover"
    BY <2>2, <2>4 DEF RecoverActions
  <2>6. act \in Action /\ act \in Alternatives(lang, <<Top(kept), Symbol>>)
        /\ <<Top(kept), Symbol>> \in DOMAIN lang.action
    BY <2>1, <2>4, <2>5
  <2> HIDE DEF act
  <2>7. act \in Recover
    BY <2>5, <2>6 DEF Action, Shift, Reduce, Accept, Recover
  <2> QED BY <2>5, <2>6, <2>7 DEF RecoveryStates
<1> HIDE DEF act
<1>7. Sound(lang, Seen, r) /\ (Fresh(pos, kept) => Disjoint(r))
  BY <1>2, <1>5, <1>6, RecoverSound
<1>8. taken' \in BOOLEAN /\ anyReduced' \in BOOLEAN /\ (taken => taken')
  BY <1>1, <1>2, Zenon
<1> HIDE DEF r
<1>9. Fresh(pos, s0) => Disjoint(r)
  BY <1>5, <1>7
<1> QED BY <1>1, <1>7, <1>8, <1>9, NoForks, ContinueKeeps

\* Every alternative of the table entry yields a stack that is sound again.
LEMMA TakeActionsKeeps ==
    ASSUME IInv, TakeActions
    PROVE  IInv'
<1> DEFINE results == [k \in 1 .. Len(acts0) |-> Applied(s0, acts0[k])]
           reduced == {k \in DOMAIN acts0 : Reduces(s0, acts0[k])}
           consumed == {k \in DOMAIN acts0 : Consumes(acts0[k])}
           allocated == Cardinality(reduced) + Cardinality(consumed)
<1>1. /\ Turn /\ acts0 # << >>
      /\ Continue(results[1], Tail(results), allocated)
      /\ anyReduced' = (anyReduced \/ reduced # {})
      /\ taken' = (taken \/ consumed # {})
  BY DEF TakeActions
<1>2. /\ TypeOK /\ pos >= 1 /\ s0 \in Stack /\ Sound(lang, Seen, s0)
      /\ Top(s0) \in Nat /\ acts0 = ActionsFor(Top(s0))
  BY <1>1, TurnFacts DEF acts0
<1>3. /\ acts0 \in Seq(Action) /\ Len(acts0) \in Nat /\ Len(acts0) > 0
      /\ DOMAIN acts0 = 1 .. Len(acts0)
  <2>1. acts0 \in Seq(Action)
    BY <1>2, ActionsTyped
  <2> QED BY <1>1, <2>1, NonEmptySeq
<1>4. \A k \in 1 .. Len(acts0) :
         /\ Sound(lang, Seen, results[k])
         /\ Fresh(pos, s0) => Disjoint(results[k])
         /\ Fresh(pos, s0) /\ consumed = {} => Fresh(pos, results[k])
  <2> SUFFICES ASSUME NEW k \in 1 .. Len(acts0)
               PROVE  /\ Sound(lang, Seen, results[k])
                      /\ Fresh(pos, s0) => Disjoint(results[k])
                      /\ Fresh(pos, s0) /\ consumed = {} => Fresh(pos, results[k])
    OBVIOUS
  <2>1. k \in DOMAIN ActionsFor(Top(s0)) /\ results[k] = Applied(s0, ActionsFor(Top(s0))[k])
    BY <1>2, <1>3
  <2>2. consumed = {} => ~ Consumes(ActionsFor(Top(s0))[k])
    BY <1>2, <2>1
  <2> HIDE DEF results, consumed
  <2> QED BY <1>2, <2>1, <2>2, AppliedSound
<1>5. allocated \in Nat
  <2>1. IsFiniteSet(1 .. Len(acts0))
    BY <1>3, FS_Interval
  <2>2. IsFiniteSet(reduced) /\ IsFiniteSet(consumed)
    BY <1>3, <2>1, FS_Subset
  <2> HIDE DEF reduced, consumed
  <2> QED BY <2>2, FS_CardinalityType
<1>6. /\ results \in Seq(Stack) /\ results # << >> /\ Len(results) = Len(acts0)
  <2>1. \A k \in 1 .. Len(acts0) : results[k] \in Stack
    BY <1>4 DEF Sound
  <2> QED BY <1>3, <2>1
<1> DEFINE forks == Tail(results)
<1> HIDE DEF results, allocated
<1>7. /\ forks \in Seq(Stack)
      /\ \A k \in DOMAIN forks : k + 1 \in 1 .. Len(acts0) /\ forks[k] = results[k + 1]
  BY <1>3, <1>6, HeadTailProperties
<1>8. /\ Continue(results[1], forks, allocated) /\ 1 \in 1 .. Len(acts0)
  BY <1>1, <1>3
<1> HIDE DEF forks, reduced, consumed
<1>9. /\ anyReduced' \in BOOLEAN /\ taken' \in BOOLEAN
      /\ taken => taken'
      /\ ~ taken' => consumed = {}
  <2>1. anyReduced' \in BOOLEAN /\ taken' \in BOOLEAN /\ (taken => taken')
    BY <1>1
  <2>2. ~ taken' => consumed = {}
    BY <1>1
  <2> QED BY <2>1, <2>2
<1>10. /\ Sound(lang, Seen, results[1])
       /\ \A k \in DOMAIN forks : Sound(lang, Seen, forks[k])
       /\ Fresh(pos, s0) =>
             /\ Disjoint(results[1]) /\ \A k \in DOMAIN forks : Disjoint(forks[k])
             /\ ~ taken' => /\ Fresh(pos, results[1])
                            /\ \A k \in DOMAIN forks : Fresh(pos, forks[k])
  <2>1. Sound(lang, Seen, results[1]) /\ (Fresh(pos, s0) => Disjoint(results[1]))
    BY <1>4, <1>8
  <2>2. ASSUME NEW k \in DOMAIN forks
        PROVE  Sound(lang, Seen, forks[k]) /\ (Fresh(pos, s0) => Disjoint(forks[k]))
    BY <1>4, <1>7
  <2>3. ASSUME Fresh(pos, s0), ~ taken'
        PROVE  /\ Fresh(pos, results[1])
               /\ \A k \in DOMAIN forks : Fresh(pos, forks[k])
    <3>1. consumed = {}
      BY <2>3, <1>9
    <3>2. \A k \in 1 .. Len(acts0) : Fresh(pos, results[k])
      BY <2>3, <3>1, <1>4
    <3> QED BY <3>2, <1>7, <1>8
  <2> QED BY <2>1, <2>2, <2>3
<1> QED BY <1>1, <1>5, <1>7, <1>8, <1>9, <1>10, ContinueKeeps

\* A token is kept only after a round in which, unless it is out of step, no
\* stack took it.
LEMMA EndRoundKeeps ==
    ASSUME IInv, EndRound
    PROVE  IInv'
<1>0. TypeOK /\ RoundShape /\ AllSound /\ AllInOrder /\ AllFresh
  BY DEF IInv
<1>a. KeepToken \/ GiveUpToken
  BY DEF EndRound
<1>1. /\ phase = "stacks" /\ phase' = "merge" /\ iterations' = iterations + 1 /\ si' = 1
      /\ UNCHANGED <<program, pos, stacks, merged, numStacks, anyReduced,
                     nodeCount, taken>>
  BY DEF EndRound, RoundOver
<1>2. lang' = lang /\ input' = input /\ Seen' = Seen
  BY <1>1, SameProgram
<1>3. /\ stacks # << >> /\ merged = << >> /\ pos >= 1 /\ 1 \in DOMAIN stacks
  <2>1. stacks # << >> /\ merged = << >> /\ pos >= 1
    BY <1>0, <1>1 DEF RoundShape
  <2>2. stacks \in Seq(Stack)
    BY <1>0 DEF TypeOK
  <2> QED BY <2>1, <2>2, NonEmptySeq
<1>4. PrimaryTop \in Nat
  BY <1>0, <1>3, TopIsState DEF AllSound, Sound, PrimaryTop
<1>5. /\ needToken' \in BOOLEAN /\ lastReduceState' \in Nat
      /\ consecutiveReduces' \in Nat
      /\ incidents \subseteq incidents'
      /\ incidents' \subseteq incidents \cup {"outOfStep", "lookaheadDropped"}
      /\ ~ needToken' /\ "outOfStep" \notin incidents' => ~ taken
  <2>1. CASE KeepToken
    <3>1. Repeated \in Nat /\ LoopSuspected \in BOOLEAN
      BY <1>0, <1>4 DEF Repeated, LoopSuspected, TypeOK
    <3>2. lastReduceState' \in Nat /\ consecutiveReduces' \in Nat
      BY <2>1, <3>1, <1>0, <1>4 DEF KeepToken, CountReduces, TypeOK, reduces
    <3>3. needToken' \in BOOLEAN
      BY <2>1, <3>1 DEF KeepToken
    <3>4. /\ incidents \subseteq incidents'
          /\ incidents' \subseteq incidents \cup {"outOfStep", "lookaheadDropped"}
          /\ "outOfStep" \notin incidents' => ~ taken
      BY <2>1 DEF KeepToken
    <3> QED BY <3>2, <3>3, <3>4
  <2>2. CASE GiveUpToken
    BY <2>2, <1>0 DEF GiveUpToken, TypeOK
  <2> QED BY <1>a, <2>1, <2>2
<1>6. TypeOK'
  <2>1. incidents' \subseteq {"mergedApart", "stacksCapped", "limit", "outOfStep",
                            "lookaheadDropped", "othersCutShort"}
    BY <1>0, <1>5 DEF TypeOK
  <2>2. /\ program' \in Programs /\ pos' \in 0 .. Len(input') + 1
        /\ stacks' \in Seq(Stack) /\ merged' \in Seq(Stack) /\ si' \in Nat \ {0}
        /\ numStacks' \in Nat /\ iterations' \in Nat /\ nodeCount' \in Nat
        /\ phase' \in {"merge", "stacks", "done"}
    BY <1>0, <1>1, <1>2 DEF TypeOK
  <2>3. anyReduced' \in BOOLEAN /\ taken' \in BOOLEAN
    BY <1>0, <1>1 DEF TypeOK
  <2> QED BY <1>5, <2>1, <2>2, <2>3 DEF TypeOK
<1>7. RoundShape'
  BY <1>1, <1>3 DEF RoundShape
<1>8. AllSound'
  BY <1>0, <1>1, <1>2 DEF AllSound
<1>9. AllInOrder'
  BY <1>0, <1>1, <1>5 DEF AllInOrder, InStep
<1>10. AllFresh'
  BY <1>0, <1>1, <1>3, <1>5 DEF AllFresh, InStep
<1> QED BY <1>6, <1>7, <1>8, <1>9, <1>10 DEF IInv
-----------------------------------------------------------------------------
LEMMA NextKeeps == IInv /\ [Next]_vars => IInv'
<1> SUFFICES ASSUME IInv, [Next]_vars PROVE IInv'
  OBVIOUS
<1>0. TypeOK /\ stacks \in Seq(Stack) /\ merged \in Seq(Stack)
  BY DEF IInv, TypeOK
<1>1. CASE MergeStack
  BY <1>1, MergeKeeps
<1>2. CASE NoStackLeft
  <2>1. PICK result : Finish(result)
    BY <1>2 DEF NoStackLeft
  <2>2. UNCHANGED <<stacks, incidents>>
    BY <1>2 DEF NoStackLeft
  <2> QED BY <1>0, <2>1, <2>2, FinishKeeps
<1>3. CASE StopAtLimit
  <2>1. PICK result : Finish(result)
    BY <1>3 DEF StopAtLimit, Finalize
  <2>2. merged # << >> /\ stacks' = Capped /\ incidents' = incidents \cup {"limit"}
    BY <1>3 DEF StopAtLimit
  <2>3. /\ Capped \in Seq(Stack)
        /\ \A k \in DOMAIN Capped : k \in DOMAIN merged /\ Capped[k] = merged[k]
    BY <1>0, <2>2, CappedStacks
  <2> QED BY <2>1, <2>2, <2>3, FinishKeeps
<1>4. CASE StartRound
  BY <1>4, StartRoundKeeps
<1>5. CASE ShiftExtra
  BY <1>5, ShiftExtraKeeps
<1>6. CASE FinishAtEnd
  <2>1. PICK result : Finish(result)
    BY <1>6 DEF FinishAtEnd, Finalize
  <2>2. UNCHANGED <<stacks, incidents>>
    BY <1>6 DEF FinishAtEnd
  <2> QED BY <1>0, <2>1, <2>2, FinishKeeps
<1>7. CASE DropStack
  BY <1>7, DropStackKeeps
<1>8. CASE SkipGap
  BY <1>8, SkipGapKeeps
<1>9. CASE RecoverOnStack
  BY <1>9, RecoverKeeps
<1>10. CASE WrapError
  BY <1>10, WrapErrorKeeps
<1>11. CASE TakeActions
  BY <1>11, TakeActionsKeeps
<1>12. CASE AcceptParse
  <2>1. PICK result : Finish(result)
    BY <1>12 DEF AcceptParse, Finalize
  <2>2. /\ UNCHANGED stacks /\ incidents \subseteq incidents'
        /\ incidents' \subseteq incidents \cup {"othersCutShort"}
    BY <1>12 DEF AcceptParse
  <2> QED BY <1>0, <2>1, <2>2, FinishKeeps
<1>13. CASE EndRound
  BY <1>13, EndRoundKeeps
<1>14. CASE StopAtIterations
  <2>1. PICK result : Finish(result)
    BY <1>14 DEF StopAtIterations, Finalize
  <2>2. UNCHANGED stacks /\ incidents' = incidents \cup {"limit"}
    BY <1>14 DEF StopAtIterations
  <2> QED BY <1>0, <2>1, <2>2, FinishKeeps
<1>15. CASE UNCHANGED vars
  <2>1. UNCHANGED <<program, pos, needToken, stacks, merged, si, numStacks,
           anyReduced, lastReduceState, consecutiveReduces, iterations, nodeCount,
           phase, taken, incidents>>
    BY <1>15 DEF vars, token, reduces
  <2>2. lang' = lang /\ input' = input /\ Seen' = Seen
    BY <2>1, SameProgram
  <2>3. TypeOK'
    BY <1>0, <2>1, <2>2 DEF TypeOK
  <2>4. RoundShape' /\ AllSound' /\ AllInOrder' /\ AllFresh'
    BY <2>1, <2>2 DEF IInv, RoundShape, AllSound, AllInOrder, AllFresh, InStep
  <2> QED BY <2>3, <2>4 DEF IInv
<1>16. CASE Returned
  BY <1>15, <1>16 DEF Returned
<1> QED BY <1>1, <1>2, <1>3, <1>4, <1>5, <1>6, <1>7, <1>8, <1>9, <1>10, <1>11,
           <1>12, <1>13, <1>14, <1>15, <1>16 DEF Next

-----------------------------------------------------------------------------
\* How many nodes a round allocates.

\* A round begins below the limit, and each turn of it adds MaxForks nodes at
\* most.
Counted ==
    /\ phase = "stacks" =>
          /\ numStacks <= MaxStacks /\ si <= numStacks + 1
          /\ nodeCount <= MaxNodes + (si - 1) * MaxForks
    /\ nodeCount <= MaxNodes + MaxStacks * MaxForks

LEMMA ForkFacts ==
    ASSUME TypeOK
    PROVE  /\ MaxForks \in Nat \ {0} /\ MaxNodes \in Nat
           /\ \A cell \in DOMAIN lang.action : Len(lang.action[cell]) <= MaxForks
<1> DEFINE cells == DOMAIN lang.action
           lengths == {Len(lang.action[cell]) : cell \in cells}
           length == [cell \in cells |-> Len(lang.action[cell])]
<1>1. /\ IsFiniteSet(cells) /\ Len(input) \in Nat
      /\ \A cell \in cells : lang.action[cell] \in Seq(Action)
  BY Tables DEF IsLanguage
<1>2. \A cell \in cells : Len(lang.action[cell]) \in Nat
  <2> TAKE cell \in cells
  <2>1. lang.action[cell] \in Seq(Action)
    BY <1>1
  <2> QED BY <2>1
<1>3. IsFiniteSet(lengths)
  <2>1. length \in Surjection(cells, lengths)
    BY DEF Surjection
  <2> HIDE DEF cells, lengths, length
  <2> QED BY <1>1, <2>1, FS_Surjection
<1>4. IsFiniteSet(Forks) /\ Forks \subseteq Nat /\ 1 \in Forks
  <2>1. Forks = lengths \cup {1}
    BY DEF Forks
  <2>2. lengths \subseteq Nat
    BY <1>2
  <2> HIDE DEF lengths
  <2> QED BY <1>3, <2>1, <2>2, FS_AddElement
<1>5. PICK n \in Nat : Forks \subseteq 0 .. n
  BY <1>4, FiniteIsBounded
<1>6. \E m \in Forks : \A k \in Forks : k <= m
  BY <1>4, <1>5, GreatestElement
<1>7. MaxForks \in Forks /\ \A k \in Forks : k <= MaxForks
  BY <1>6 DEF MaxForks
<1>8. MaxForks \in Nat \ {0}
  BY <1>4, <1>7
<1>9. \A cell \in cells : Len(lang.action[cell]) <= MaxForks
  BY <1>7 DEF Forks
<1>10. MaxNodes \in Nat
  BY <1>1, LimitsAssumption DEF MaxNodes, AtLeast
<1> QED BY <1>8, <1>9, <1>10

LEMMA SameCeiling ==
    ASSUME program' = program
    PROVE  MaxForks' = MaxForks /\ MaxNodes' = MaxNodes
<1>1. lang' = lang /\ input' = input
  BY SameProgram
<1> QED BY <1>1 DEF MaxForks, Forks, MaxNodes

LEMMA TimesGrows ==
    ASSUME NEW a \in Nat, NEW b \in Nat, NEW m \in Nat, a <= b
    PROVE  /\ a * m \in Nat /\ b * m \in Nat /\ a * m <= b * m
           /\ (a + 1) * m = a * m + m
<1>1. (b - a) * m \in Nat /\ b - a \in Nat
  OBVIOUS
<1>2. b * m = a * m + (b - a) * m
  OBVIOUS
<1> QED BY <1>1, <1>2

\* The turn of one stack.
LEMMA TurnCounts ==
    ASSUME IInv, Counted, Turn, NEW s, NEW forks, NEW allocated \in Nat,
           Continue(s, forks, allocated), allocated <= MaxForks
    PROVE  Counted'
<1>1. /\ phase = "stacks" /\ phase' = "stacks" /\ si <= numStacks /\ si' = si + 1
      /\ nodeCount' = nodeCount + allocated
      /\ numStacks' = numStacks /\ program' = program
  BY DEF Turn, Continue
<1>2. /\ si \in Nat \ {0} /\ numStacks \in Nat /\ nodeCount \in Nat /\ MaxStacks \in Nat
      /\ MaxForks \in Nat /\ MaxNodes \in Nat
      /\ MaxForks' = MaxForks /\ MaxNodes' = MaxNodes
  BY <1>1, ForkFacts, SameCeiling, LimitsAssumption DEF IInv, TypeOK
<1>3. /\ numStacks <= MaxStacks /\ nodeCount <= MaxNodes + (si - 1) * MaxForks
  BY <1>1 DEF Counted
<1>4. /\ (si - 1) * MaxForks \in Nat /\ si * MaxForks = (si - 1) * MaxForks + MaxForks
      /\ si * MaxForks \in Nat
  <2>1. si - 1 \in Nat /\ si - 1 <= si - 1 /\ (si - 1) + 1 = si
    BY <1>2
  <2>2. si * MaxForks = (si - 1) * MaxForks + MaxForks /\ (si - 1) * MaxForks \in Nat
    <3>1. ((si - 1) + 1) * MaxForks = (si - 1) * MaxForks + MaxForks
          /\ (si - 1) * MaxForks \in Nat
      BY <1>2, <2>1, TimesGrows
    <3> QED BY <2>1, <3>1
  <2> QED BY <1>2, <2>2
<1>5. nodeCount' <= MaxNodes + si * MaxForks
  <2> DEFINE before == (si - 1) * MaxForks
             now == si * MaxForks
  <2>1. before \in Nat /\ now \in Nat /\ now = before + MaxForks
    BY <1>4
  <2>2. nodeCount <= MaxNodes + before
    BY <1>3
  <2> HIDE DEF before, now
  <2>3. nodeCount' <= MaxNodes + now
    BY <1>1, <1>2, <2>1, <2>2
  <2> QED BY <2>3 DEF now
<1>6. si * MaxForks <= MaxStacks * MaxForks /\ MaxStacks * MaxForks \in Nat
  BY <1>1, <1>2, <1>3, TimesGrows
<1>7. nodeCount' \in Nat /\ si' - 1 = si
  BY <1>1, <1>2
<1>8. nodeCount' <= MaxNodes + MaxStacks * MaxForks
  <2> DEFINE now == si * MaxForks
             most == MaxStacks * MaxForks
  <2>1. now \in Nat /\ most \in Nat /\ now <= most /\ nodeCount' <= MaxNodes + now
    BY <1>4, <1>5, <1>6
  <2> HIDE DEF now, most
  <2>2. nodeCount' <= MaxNodes + most
    BY <1>2, <1>7, <2>1
  <2> QED BY <2>2 DEF most
<1>9. numStacks' <= MaxStacks /\ si' <= numStacks' + 1
  BY <1>1, <1>2, <1>3
<1>10. nodeCount' <= MaxNodes' + (si' - 1) * MaxForks'
  BY <1>2, <1>5, <1>7
<1> QED BY <1>2, <1>8, <1>9, <1>10 DEF Counted

\* What TakeActions allocates: a node for each alternative that reduces or
\* takes the token, and none does both.
LEMMA ActionsCount ==
    ASSUME IInv, Turn, acts0 # << >>
    PROVE  LET reduced == {k \in DOMAIN acts0 : Reduces(s0, acts0[k])}
               consumed == {k \in DOMAIN acts0 : Consumes(acts0[k])}
               allocated == Cardinality(reduced) + Cardinality(consumed)
           IN  allocated \in Nat /\ allocated <= MaxForks
<1> DEFINE reduced == {k \in DOMAIN acts0 : Reduces(s0, acts0[k])}
           consumed == {k \in DOMAIN acts0 : Consumes(acts0[k])}
<1>1. /\ TypeOK /\ Top(s0) \in Nat /\ acts0 = ActionsFor(Top(s0)) /\ acts0 \in Seq(Action)
  BY TurnFacts, ActionsTyped DEF acts0
<1>2. /\ Len(acts0) \in Nat /\ DOMAIN acts0 = 1 .. Len(acts0)
  BY <1>1, NonEmptySeq
<1>3. Len(acts0) <= MaxForks
  <2>1. /\ <<Top(s0), Symbol>> \in DOMAIN lang.action
        /\ acts0 = lang.action[<<Top(s0), Symbol>>]
    BY <1>1 DEF ActionsFor
  <2> QED BY <1>1, <2>1, ForkFacts
<1>4. IsFiniteSet(DOMAIN acts0) /\ Cardinality(DOMAIN acts0) = Len(acts0)
  BY <1>2, FS_Interval
<1>5. reduced \cap consumed = {}
  BY DEF Reduces, Consumes
<1>6. /\ reduced \in SUBSET DOMAIN acts0 /\ consumed \in SUBSET DOMAIN acts0
      /\ reduced \cup consumed \in SUBSET DOMAIN acts0
  OBVIOUS
<1> HIDE DEF reduced, consumed
<1>7. /\ IsFiniteSet(reduced) /\ IsFiniteSet(consumed)
      /\ Cardinality(reduced \cup consumed) <= Len(acts0)
  BY <1>4, <1>6, FS_Subset
<1>8. /\ Cardinality(reduced) \in Nat /\ Cardinality(consumed) \in Nat
  BY <1>7, FS_CardinalityType
<1>9. Cardinality(reduced \cup consumed) = Cardinality(reduced) + Cardinality(consumed)
  <2>1. Cardinality(reduced \cup consumed)
          = Cardinality(reduced) + Cardinality(consumed) - Cardinality(reduced \cap consumed)
    BY <1>7, FS_Union
  <2>2. Cardinality(reduced \cap consumed) = 0
    BY <1>5, FS_EmptySet
  <2> QED BY <1>8, <2>1, <2>2
<1>10. MaxForks \in Nat
  BY <1>1, ForkFacts
<1>11. Cardinality(reduced) + Cardinality(consumed) \in Nat
       /\ Cardinality(reduced) + Cardinality(consumed) <= MaxForks
  BY <1>2, <1>3, <1>7, <1>8, <1>9, <1>10
<1> QED BY <1>11 DEF reduced, consumed

LEMMA InitCounted == Init => Counted
<1> SUFFICES ASSUME Init PROVE Counted
  OBVIOUS
<1>1. TypeOK
  BY InitIInv DEF IInv
<1>2. MaxForks \in Nat /\ MaxNodes \in Nat /\ MaxStacks \in Nat
  BY <1>1, ForkFacts, LimitsAssumption
<1>3. MaxStacks * MaxForks \in Nat
  BY <1>2, TimesGrows
<1> QED BY <1>2, <1>3 DEF Init, Counted

LEMMA NextCounted == IInv /\ Counted /\ [Next]_vars => Counted'
<1> SUFFICES ASSUME IInv, Counted, [Next]_vars PROVE Counted'
  OBVIOUS
<1>1. TypeOK /\ MaxForks \in Nat /\ 1 <= MaxForks /\ 0 <= MaxForks
      /\ MaxNodes \in Nat /\ MaxStacks \in Nat
  BY ForkFacts, LimitsAssumption DEF IInv
\* Outside of a round nothing is allocated.
<1>2. ASSUME program' = program, nodeCount' = nodeCount,
             phase' = "stacks" => phase = "stacks" /\ numStacks' = numStacks /\ si' = si
      PROVE  Counted'
  <2>1. MaxForks' = MaxForks /\ MaxNodes' = MaxNodes
    BY <1>2, SameCeiling
  <2> QED BY <1>2, <2>1 DEF Counted
<1>3. ASSUME NEW result, Finish(result) PROVE Counted'
  BY <1>2, <1>3 DEF Finish
<1>4. CASE MergeStack
  BY <1>2, <1>4 DEF MergeStack
<1>5. CASE NoStackLeft \/ StopAtLimit \/ FinishAtEnd \/ AcceptParse \/ StopAtIterations
  <2>1. PICK result : Finish(result)
    BY <1>5 DEF NoStackLeft, StopAtLimit, FinishAtEnd, AcceptParse, StopAtIterations, Finalize
  <2> QED BY <1>3, <2>1
<1>6. CASE StartRound
  <2>1. /\ merged # << >> /\ ~ OverLimit /\ phase' = "stacks" /\ si' = 1
        /\ stacks' = Capped /\ numStacks' = Len(stacks')
        /\ nodeCount' = nodeCount /\ program' = program
    BY <1>6 DEF StartRound, Merged
  <2>2. nodeCount \in Nat /\ nodeCount <= MaxNodes
    BY <1>1, <2>1 DEF OverLimit, TypeOK
  <2>3. numStacks' <= MaxStacks /\ numStacks' \in Nat
    <3> DEFINE n == IF Len(merged) > MaxStacks THEN MaxStacks ELSE Len(merged)
    <3>1. merged \in Seq(Stack) /\ Len(merged) \in Nat
      BY <1>1 DEF TypeOK
    <3>2. n \in Nat /\ n <= Len(merged) /\ n <= MaxStacks
      BY <1>1, <3>1
    <3>3. Capped = SubSeq(merged, 1, n)
      BY DEF Capped
    <3> HIDE DEF n
    <3>4. Len(Capped) = n
      BY <3>1, <3>2, <3>3, SubSeqProperties
    <3> QED BY <2>1, <3>2, <3>4
  <2>4. MaxForks' = MaxForks /\ MaxNodes' = MaxNodes
    BY <2>1, SameCeiling
  <2>5. MaxStacks * MaxForks \in Nat
    BY <1>1, TimesGrows
  <2>6. nodeCount' <= MaxNodes' + (si' - 1) * MaxForks'
    <3>1. (si' - 1) * MaxForks' = 0
      BY <1>1, <2>1, <2>4
    <3> QED BY <1>1, <2>1, <2>2, <2>4, <3>1
  <2>7. nodeCount' <= MaxNodes' + MaxStacks * MaxForks'
    <3> DEFINE most == MaxStacks * MaxForks
    <3>1. most \in Nat
      BY <2>5
    <3> HIDE DEF most
    <3>2. nodeCount <= MaxNodes + most
      BY <1>1, <2>2, <3>1
    <3> QED BY <2>1, <2>4, <3>2 DEF most
  <2>8. si' <= numStacks' + 1
    BY <2>1, <2>3
  <2> QED BY <2>3, <2>6, <2>7, <2>8 DEF Counted
<1>7. CASE ShiftExtra \/ WrapError \/ RecoverOnStack
  <2>1. PICK s : Turn /\ Continue(s, << >>, 1)
    BY <1>7 DEF ShiftExtra, WrapError, RecoverOnStack, Stuck
  <2>2. 1 \in Nat
    OBVIOUS
  <2> QED BY <1>1, <2>1, <2>2, TurnCounts
<1>8. CASE DropStack \/ SkipGap
  <2>1. PICK s : Turn /\ Continue(s, << >>, 0)
    BY <1>8 DEF DropStack, SkipGap, Stuck
  <2>2. 0 \in Nat
    OBVIOUS
  <2> QED BY <1>1, <2>1, <2>2, TurnCounts
<1>9. CASE TakeActions
  <2> DEFINE allocated == Cardinality({k \in DOMAIN acts0 : Reduces(s0, acts0[k])})
                            + Cardinality({k \in DOMAIN acts0 : Consumes(acts0[k])})
  <2>1. PICK s, forks : Turn /\ acts0 # << >> /\ Continue(s, forks, allocated)
    BY <1>9 DEF TakeActions
  <2>2. allocated \in Nat /\ allocated <= MaxForks
    BY <2>1, ActionsCount
  <2> HIDE DEF allocated
  <2> QED BY <2>1, <2>2, TurnCounts
<1>10. CASE EndRound
  BY <1>2, <1>10 DEF EndRound
<1>11. CASE UNCHANGED vars
  BY <1>2, <1>11 DEF vars
<1>12. CASE Returned
  BY <1>11, <1>12 DEF Returned
<1> QED BY <1>4, <1>5, <1>6, <1>7, <1>8, <1>9, <1>10, <1>11, <1>12 DEF Next
-----------------------------------------------------------------------------
\* The invariant holds throughout a parse of any program, with any limits.
THEOREM Invariance == Spec => []IInv
BY InitIInv, NextKeeps, PTL DEF Spec

\* Every variable keeps its type.
THEOREM Typing == Spec => []TypeOK
<1>1. IInv => TypeOK
  BY DEF IInv
<1> QED BY <1>1, Invariance, PTL

\* Every stack is a path of the automaton whose bottom entry is never popped.
THEOREM StacksArePaths == Spec => []StacksFollowTables
<1>1. IInv => StacksFollowTables
  BY DEF IInv, AllSound, Sound, StacksFollowTables
<1> QED BY <1>1, Invariance, PTL

\* As long as no round lets one stack take the token while another keeps it,
\* each token is on a stack at most once, in source order.
THEOREM TokensAreTakenOnce == Spec => []TokensInOrder
<1>1. IInv => TokensInOrder
  BY DEF IInv, AllInOrder, InStep, TokensInOrder, InOrder
<1> QED BY <1>1, Invariance, PTL

\* NodesAreBounded: the limit is looked at between rounds only, and yet a
\* parse never allocates more nodes than it and one round's worth of forks,
\* for any tables and input: parseNodeLimit is a ceiling.
THEOREM NodesHaveACeiling == Spec => []NodesAreBounded
<1>1. Counted => NodesAreBounded
  BY DEF Counted, NodesAreBounded
<1>2. Spec => []Counted
  BY InitCounted, NextCounted, Invariance, PTL DEF Spec
<1> QED BY <1>1, <1>2, PTL
=============================================================================
