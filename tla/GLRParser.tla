------------------------------- MODULE GLRParser -------------------------------
(***************************************************************************)
(* The parsing loop of Parser.parseInternal (parser.go) over the parse     *)
(* stacks of glr.go: a parse keeps a list of stacks, merges those whose    *)
(* top states agree, fetches a token when the last one is used up, lets    *)
(* every stack act on it (forking where the table has several actions),    *)
(* and decides at the end of the round whether the token is kept.          *)
(*                                                                         *)
(* A program is a language (tables of parse actions) with an input (the    *)
(* symbols its token source delivers).  A node is reduced to what the loop *)
(* decides on: its symbol, its flags, and the set of tokens below it.      *)
(***************************************************************************)
EXTENDS Integers, Sequences, FiniteSets

CONSTANTS Symbols,        \* terminals and nonterminals
          Languages,      \* tables by name, see IsLanguage
          Programs,       \* what is parsed: a language's name and an input
          MinIterations,  \* 10_000 in parseIterations
          MinDepth,       \* 1_000 in parseStackDepth
          MinNodes,       \* 50_000 in parseNodeLimit
          MaxStacks,      \* maxStacks, 64
          ReduceLimit     \* 10, of the infinite-reduce detection

EndSymbol == "end"        \* Symbol 0: the end of the input ...
Gap == "gap"              \* ... or a token of symbol 0 that has a width
ErrorSymbol == "ERROR"
ASSUME SymbolsAssumption ==
    {EndSymbol, Gap, ErrorSymbol, "none"} \subseteq Symbols

Shift   == [type : {"shift"}, state : Nat, extra : BOOLEAN]
Reduce  == [type : {"reduce"}, symbol : Symbols, count : Nat, prec : Int]
Accept  == [type : {"accept"}]
Recover == [type : {"recover"}, state : Nat]
Action  == Shift \cup Reduce \cup Accept \cup Recover

\* Tables: action[<<state, symbol>>] lists the alternatives, goto the target
\* of a reduction; a pair outside the domain is an empty entry of the code's
\* table.  The end of the input is never shifted.
IsLanguage(l) ==
    /\ l.initial \in Nat
    /\ DOMAIN l.action \subseteq Nat \X Symbols /\ IsFiniteSet(DOMAIN l.action)
    /\ \A cell \in DOMAIN l.action :
          /\ l.action[cell] \in Seq(Action)
          /\ \A k \in DOMAIN l.action[cell] :
                cell[2] = EndSymbol => l.action[cell][k].type # "shift"
    /\ DOMAIN l.goto \subseteq Nat \X Symbols
    /\ \A cell \in DOMAIN l.goto : l.goto[cell] \in Nat

ASSUME LanguagesAssumption == \A name \in DOMAIN Languages : IsLanguage(Languages[name])
ASSUME ProgramsAssumption ==
    Programs \subseteq [lang : DOMAIN Languages, input : Seq(Symbols)]
ASSUME LimitsAssumption ==
    /\ MinIterations \in Nat \ {0} /\ MinDepth \in Nat \ {0}
    /\ MinNodes \in Nat \ {0} /\ MaxStacks \in Nat \ {0}
    /\ ReduceLimit \in Nat \ {0}

VARIABLES
    program,             \* the parse's language and source
    pos,                 \* tokens fetched; the current one is number pos
    needToken,           \* fetch one at the start of the next round
    stacks,              \* []glrStack
    merged,              \* the result mergeStacks is building
    si,                  \* the stack the current loop is at
    numStacks,           \* stacks of this round; forks are appended behind
    anyReduced,          \* a stack reduced in this round
    lastReduceState,     \* top state of the primary stack's last reduction
    consecutiveReduces,  \* rounds it has reduced to that state in a row
    iterations,          \* rounds begun (iter)
    nodeCount,           \* nodes allocated
    phase,               \* "merge", "stacks" or "done"
    tree,                \* the result: a set of at most one root
    taken,               \* history: a stack consumed the token in this round
    incidents            \* history: the shortcuts the loop has taken

token == <<pos, needToken>>
reduces == <<lastReduceState, consecutiveReduces>>
vars == <<program, token, stacks, merged, si, numStacks, anyReduced, reduces,
          iterations, nodeCount, phase, tree, taken, incidents>>

lang  == Languages[program.lang]
input == program.input
-----------------------------------------------------------------------------
\* Stacks.

Node  == [symbol : Symbols, extra : BOOLEAN, error : BOOLEAN,
          tokens : SUBSET (Nat \ {0})]
Entry == [state : Nat, node : Node]
\* The bottom entry has no node; Bottom's node is never looked at.
NoNode == [symbol |-> "none", extra |-> FALSE, error |-> FALSE, tokens |-> {}]
Stack == [entries : Seq(Entry), score : Int, dead : BOOLEAN,
          accepted : BOOLEAN]

NewStack(state) ==
    [entries |-> << [state |-> state, node |-> NoNode] >>,
     score |-> 0, dead |-> FALSE, accepted |-> FALSE]
Top(s) == s.entries[Len(s.entries)].state
Push(s, state, node) ==
    [s EXCEPT !.entries = Append(@, [state |-> state, node |-> node])]
Truncate(s, depth) == [s EXCEPT !.entries = SubSeq(@, 1, depth)]

-----------------------------------------------------------------------------
\* Tokens, tables and limits.

AtEnd  == pos > Len(input)
Symbol == IF AtEnd \/ input[pos] = Gap THEN EndSymbol ELSE input[pos]
\* Faulty variant: the leaf of an unexpected token is not marked.
UnmarkedLeaf(symbol, extra) ==
    [symbol |-> symbol, extra |-> extra, error |-> FALSE, tokens |-> {pos}]
Leaf(symbol, extra) ==
    [symbol |-> symbol, extra |-> extra, error |-> symbol = ErrorSymbol,
     tokens |-> {pos}]

ActionsFor(state) ==
    IF <<state, Symbol>> \in DOMAIN lang.action
    THEN lang.action[<<state, Symbol>>] ELSE << >>
GotoState(l, state, symbol) ==
    IF <<state, symbol>> \in DOMAIN l.goto
    THEN l.goto[<<state, symbol>>] ELSE state

AtLeast(bound, n) == IF n > bound THEN n ELSE bound
MaxIterations == AtLeast(MinIterations, Len(input) * 20)
MaxDepth      == AtLeast(MinDepth, Len(input) * 2)
MaxNodes      == AtLeast(MinNodes, Len(input) * 10)

-----------------------------------------------------------------------------
\* applyAction.

\* Faulty variant: extras count as children.
AllEntries(s, from) == from .. Len(s.entries)

\* The entries a reduction pops: the shortest end of the stack, above its
\* bottom, that holds count nodes which are not extras.
NonExtras(s, from) ==
    {k \in from .. Len(s.entries) : ~ s.entries[k].node.extra}
CanPop(s, from, count) ==
    /\ Cardinality(NonExtras(s, from)) = count
    /\ from <= Len(s.entries) => ~ s.entries[from].node.extra
PopStarts(s, count) ==
    {from \in 2 .. Len(s.entries) + 1 : CanPop(s, from, count)}

Parent(s, from, act) ==
    [symbol |-> act.symbol, extra |-> FALSE,
     error |-> \E k \in from .. Len(s.entries) : s.entries[k].node.error,
     tokens |-> UNION {s.entries[k].node.tokens : k \in from .. Len(s.entries)}]

\* Faulty variant: the goto is looked up in the state that is popped.
ReduceFromTop(s, act) ==
    IF PopStarts(s, act.count) = {}
    THEN [s EXCEPT !.dead = TRUE]
    ELSE LET from == CHOOSE k \in PopStarts(s, act.count) : TRUE
         IN  Push(Truncate(s, from - 1), GotoState(lang, Top(s), act.symbol),
                  Parent(s, from, act))

ReduceStack(s, act) ==
    IF PopStarts(s, act.count) = {}
    THEN [s EXCEPT !.dead = TRUE]
    ELSE LET from == CHOOSE k \in PopStarts(s, act.count) : TRUE
             kept == Truncate(s, from - 1)
         IN  [Push(kept, GotoState(lang, Top(kept), act.symbol), Parent(s, from, act))
                EXCEPT !.score = @ + act.prec]

RecoverStack(s, act) ==
    IF AtEnd
    THEN [s EXCEPT !.accepted = TRUE]
    ELSE Push(s, IF act.state = 0 THEN Top(s) ELSE act.state,
              Leaf(ErrorSymbol, FALSE))

Applied(s, act) ==
    CASE act.type = "shift"   -> Push(s, act.state, Leaf(Symbol, act.extra))
      [] act.type = "reduce"  -> ReduceStack(s, act)
      [] act.type = "accept"  -> [s EXCEPT !.accepted = TRUE]
      [] act.type = "recover" -> RecoverStack(s, act)

Reduces(s, act) == act.type = "reduce" /\ PopStarts(s, act.count) # {}
Consumes(act)   == act.type = "shift" \/ (act.type = "recover" /\ ~ AtEnd)

\* findRecoverActionOnStack: the depths that have a recover action.
RecoverActions(state) ==
    {k \in DOMAIN ActionsFor(state) : ActionsFor(state)[k].type = "recover"}
RecoverDepths(s) ==
    {d \in 1 .. Len(s.entries) : RecoverActions(s.entries[d].state) # {}}
FirstRecover(state) ==
    ActionsFor(state)[CHOOSE k \in RecoverActions(state) :
                          \A j \in RecoverActions(state) : k <= j]
Nearest(depths) == CHOOSE d \in depths : \A e \in depths : e <= d

-----------------------------------------------------------------------------
\* buildResultFromGLR and buildResult: the tree of the best stack.

Beats(a, b) ==
    IF a.dead # b.dead THEN b.dead
    ELSE \/ a.accepted /\ ~ b.accepted
         \/ a.score > b.score
         \/ a.score = b.score /\ Len(a.entries) > Len(b.entries)
Best(ss) ==
    ss[CHOOSE k \in DOMAIN ss :
          \A j \in DOMAIN ss \ {k} :
             IF j < k THEN Beats(ss[k], ss[j]) ELSE ~ Beats(ss[j], ss[k])]

Root(symbol, error, tokens, score) ==
    [symbol |-> symbol, error |-> error, tokens |-> tokens, score |-> score]
ErrorTree == {Root(ErrorSymbol, TRUE, 1 .. Len(input), 0)}

\* The only node becomes the root, or the only one that is no extra, with
\* the extras around it; anything else is wrapped in a root with an error.
Result(s) ==
    LET inner == 2 .. Len(s.entries)
        node(k) == s.entries[k].node
        real == {k \in inner : ~ node(k).extra}
        all == UNION {node(k).tokens : k \in inner}
        root(k, error) == {Root(node(k).symbol, error, all, s.score)}
    IN  CASE inner = {} -> IF input = << >> THEN {} ELSE ErrorTree
          [] Cardinality(inner) = 1 -> root(2, node(2).error)
          [] inner # {} /\ Cardinality(inner) # 1 /\ Cardinality(real) = 1 ->
               LET k == CHOOSE k \in real : TRUE IN root(k, node(k).error)
          [] OTHER -> root(Len(s.entries), TRUE)

Finish(result) ==
    /\ phase' = "done"
    /\ tree' = result
    /\ UNCHANGED <<program, token, merged, si, numStacks, anyReduced, reduces,
                   iterations, nodeCount, taken>>
Finalize(ss) == Finish(Result(Best(ss)))

-----------------------------------------------------------------------------
Init ==
    /\ program \in Programs
    /\ pos = 0 /\ needToken = TRUE
    /\ stacks = << NewStack(lang.initial) >>
    /\ merged = << >> /\ si = 1 /\ numStacks = 0
    /\ anyReduced = FALSE /\ lastReduceState = 0 /\ consecutiveReduces = 0
    /\ iterations = 0 /\ nodeCount = 0
    /\ phase = "merge" /\ tree = {}
    /\ taken = FALSE /\ incidents = {}

\* Start of a round: mergeStacksWithScratch, one stack at a time.  Stacks are
\* compared by their top state only; the first of equal scores stays.

SameTop(s) == {k \in DOMAIN merged : Top(merged[k]) = Top(s)}
States(s) == [k \in DOMAIN s.entries |-> s.entries[k].state]

MergeStack ==
    /\ phase = "merge" /\ si <= Len(stacks)
    /\ LET s == stacks[si]
           twin == CHOOSE k \in SameTop(s) : TRUE
       IN  \/ s.dead /\ UNCHANGED <<merged, incidents>>
           \/ /\ ~ s.dead /\ SameTop(s) = {}
              /\ merged' = Append(merged, s)
              /\ UNCHANGED incidents
           \/ /\ ~ s.dead /\ SameTop(s) # {}
              /\ merged' = IF s.score > merged[twin].score
                           THEN [merged EXCEPT ![twin] = s] ELSE merged
              /\ incidents' = incidents \cup
                    (IF States(s) = States(merged[twin])
                     THEN {} ELSE {"mergedApart"})
    /\ si' = si + 1
    /\ UNCHANGED <<program, token, stacks, numStacks, anyReduced, reduces, iterations,
                   nodeCount, phase, tree, taken>>

Merged == phase = "merge" /\ si > Len(stacks)
Capped == SubSeq(merged, 1, IF Len(merged) > MaxStacks THEN MaxStacks
                                                      ELSE Len(merged))
\* Faulty variant: only the depth is limited.
TooDeep == Len(merged[1].entries) > MaxDepth
OverLimit == Len(merged[1].entries) > MaxDepth \/ nodeCount > MaxNodes

NoStackLeft ==
    /\ Merged /\ merged = << >>
    /\ Finish(ErrorTree)
    /\ UNCHANGED <<stacks, incidents>>

StopAtLimit ==
    /\ Merged /\ merged # << >> /\ OverLimit
    /\ Finalize(Capped)
    /\ stacks' = Capped
    /\ incidents' = incidents \cup {"limit"}

\* Faulty variant: tokens are numbered past the end of the input.
StartRoundPastEnd ==
    /\ Merged /\ merged # << >> /\ ~ OverLimit
    /\ pos' = IF needToken THEN pos + 1 ELSE pos
    /\ stacks' = Capped /\ numStacks' = Len(stacks') /\ si' = 1
    /\ merged' = << >> /\ anyReduced' = FALSE /\ taken' = FALSE
    /\ phase' = "stacks"
    /\ UNCHANGED <<program, needToken, reduces, iterations, nodeCount, tree, incidents>>

\* The token source keeps answering with the end of the input.
StartRound ==
    /\ Merged /\ merged # << >> /\ ~ OverLimit
    /\ stacks' = Capped
    /\ incidents' = incidents \cup
          (IF Len(merged) > MaxStacks THEN {"stacksCapped"} ELSE {})
    /\ pos' = IF needToken /\ ~ AtEnd THEN pos + 1 ELSE pos
    /\ numStacks' = Len(stacks')
    /\ si' = 1 /\ merged' = << >>
    /\ anyReduced' = FALSE /\ taken' = FALSE
    /\ phase' = "stacks"
    /\ UNCHANGED <<program, needToken, reduces, iterations, nodeCount, tree>>

-----------------------------------------------------------------------------
\* One stack's turn.  No stack is dead before its turn.  The assignments of
\* needToken inside the loop are left out: the end of the round overwrites
\* each of them.

Turn == phase = "stacks" /\ si <= numStacks
s0 == stacks[si]
acts0 == ActionsFor(Top(s0))

\* The stack becomes s; forks are appended; allocated nodes are counted.
Continue(s, forks, allocated) ==
    /\ stacks' = [stacks EXCEPT ![si] = s] \o forks
    /\ nodeCount' = nodeCount + allocated
    /\ si' = si + 1
    /\ UNCHANGED <<program, token, merged, numStacks, reduces, iterations, phase,
                   tree, incidents>>

IsExtraShift == acts0 # << >> /\ acts0[1].type = "shift" /\ acts0[1].extra

ShiftExtra ==
    /\ Turn /\ IsExtraShift
    /\ Continue(Push(s0, Top(s0), Leaf(Symbol, TRUE)), << >>, 1)
    /\ taken' = TRUE
    /\ UNCHANGED anyReduced

Stuck == Turn /\ acts0 = << >>

FinishAtEnd ==
    /\ Stuck /\ AtEnd /\ Len(stacks) = 1
    /\ Finalize(stacks)
    /\ UNCHANGED <<stacks, incidents>>

\* Among several stacks the stuck one dies, at the end of the input as before
\* it; nothing looks at whether another one can go on.
DropStack ==
    /\ Stuck /\ Len(stacks) > 1
    /\ AtEnd \/ (Symbol # EndSymbol /\ RecoverDepths(s0) = {})
    /\ Continue([s0 EXCEPT !.dead = TRUE], << >>, 0)
    /\ UNCHANGED <<anyReduced, taken>>

SkipGap ==
    /\ Stuck /\ ~ AtEnd /\ Symbol = EndSymbol
    /\ Continue(s0, << >>, 0)
    /\ UNCHANGED <<anyReduced, taken>>

RecoverOnStack ==
    /\ Stuck /\ Symbol # EndSymbol /\ RecoverDepths(s0) # {}
    /\ LET depth == Nearest(RecoverDepths(s0))
           kept == Truncate(s0, depth)
       IN  Continue(RecoverStack(kept, FirstRecover(Top(kept))), << >>, 1)
    /\ taken' = TRUE
    /\ UNCHANGED anyReduced

WrapError ==
    /\ Stuck /\ Symbol # EndSymbol /\ RecoverDepths(s0) = {}
    /\ Len(stacks) = 1
    /\ Continue(Push(s0, Top(s0), Leaf(ErrorSymbol, FALSE)), << >>, 1)
    /\ taken' = TRUE
    /\ UNCHANGED anyReduced

\* The first action in place, a fork of the saved stack for each other one.
TakeActions ==
    /\ Turn /\ acts0 # << >> /\ ~ IsExtraShift
    /\ LET results == [k \in 1 .. Len(acts0) |-> Applied(s0, acts0[k])]
           reduced == {k \in DOMAIN acts0 : Reduces(s0, acts0[k])}
           consumed == {k \in DOMAIN acts0 : Consumes(acts0[k])}
       IN  /\ Continue(results[1], Tail(results),
                       Cardinality(reduced) + Cardinality(consumed))
           /\ anyReduced' = (anyReduced \/ reduced # {})
           /\ taken' = (taken \/ consumed # {})

-----------------------------------------------------------------------------
\* End of a round: accept, or keep or give up the token.

RoundOver == phase = "stacks" /\ si > numStacks
AcceptedStacks == {k \in DOMAIN stacks : stacks[k].accepted}

AcceptParse ==
    /\ RoundOver /\ AcceptedStacks # {}
    /\ LET first == CHOOSE k \in AcceptedStacks :
                       \A j \in AcceptedStacks : k <= j
           others == {k \in DOMAIN stacks : ~ stacks[k].dead} \ {first}
       IN  /\ Finalize(<< stacks[first] >>)
           /\ incidents' = incidents \cup
                 (IF others = {} THEN {} ELSE {"othersCutShort"})
    /\ UNCHANGED stacks

PrimaryTop == Top(stacks[1])
Repeated == IF PrimaryTop = lastReduceState THEN consecutiveReduces + 1 ELSE 1
LoopSuspected == ~ stacks[1].dead /\ Repeated > ReduceLimit

CountReduces ==
    IF stacks[1].dead THEN UNCHANGED reduces
    ELSE /\ lastReduceState' = PrimaryTop
         /\ consecutiveReduces' = IF LoopSuspected THEN 0 ELSE Repeated

KeepToken ==
    /\ anyReduced
    /\ needToken' = LoopSuspected
    /\ CountReduces
    /\ incidents' = incidents
          \cup (IF taken THEN {"outOfStep"} ELSE {})
          \cup (IF LoopSuspected /\ ~ AtEnd THEN {"lookaheadDropped"} ELSE {})

\* Faulty variant: a token that was kept once is never given up.
KeepUsedToken ==
    /\ ~ anyReduced
    /\ consecutiveReduces' = 0
    /\ UNCHANGED <<needToken, lastReduceState, incidents>>

GiveUpToken ==
    /\ ~ anyReduced
    /\ needToken' = TRUE
    /\ consecutiveReduces' = 0
    /\ UNCHANGED <<lastReduceState, incidents>>

EndRound ==
    /\ RoundOver /\ AcceptedStacks = {} /\ iterations + 1 < MaxIterations
    /\ KeepToken \/ GiveUpToken
    /\ iterations' = iterations + 1
    /\ si' = 1
    /\ phase' = "merge"
    /\ UNCHANGED <<program, pos, stacks, merged, numStacks, anyReduced,
                   nodeCount, tree, taken>>

StopAtIterations ==
    /\ RoundOver /\ AcceptedStacks = {} /\ iterations + 1 >= MaxIterations
    /\ Finalize(stacks)
    /\ incidents' = incidents \cup {"limit"}
    /\ UNCHANGED stacks

\* parseInternal has returned.
Returned == phase = "done" /\ UNCHANGED vars

Next ==
    \/ MergeStack \/ NoStackLeft \/ StopAtLimit \/ StartRound
    \/ ShiftExtra \/ FinishAtEnd \/ DropStack \/ SkipGap
    \/ RecoverOnStack \/ WrapError \/ TakeActions
    \/ AcceptParse \/ EndRound \/ StopAtIterations
    \/ Returned

Spec == Init /\ [][Next]_vars
-----------------------------------------------------------------------------
TypeOK ==
    /\ program \in Programs
    /\ pos \in 0 .. Len(input) + 1 /\ needToken \in BOOLEAN
    /\ stacks \in Seq(Stack) /\ merged \in Seq(Stack)
    /\ si \in Nat \ {0} /\ numStacks \in Nat
    /\ anyReduced \in BOOLEAN /\ taken \in BOOLEAN
    /\ lastReduceState \in Nat /\ consecutiveReduces \in Nat
    /\ iterations \in Nat /\ nodeCount \in Nat
    /\ phase \in {"merge", "stacks", "done"}
    /\ incidents \subseteq {"mergedApart", "stacksCapped", "limit", "outOfStep",
                            "lookaheadDropped", "othersCutShort"}

\* A step of a stack that the tables allow: a shift or a skipped extra, the
\* goto of a reduction, an error leaf at the same or at a recovery state.
Alternatives(l, cell) == {l.action[cell][k] : k \in DOMAIN l.action[cell]}
RecoveryStates(l) ==
    {a.state : a \in {b \in UNION {Alternatives(l, cell) : cell \in DOMAIN l.action} :
                        b.type = "recover"}}
Follows(l, from, entry) ==
    LET symbol == entry.node.symbol
        cell == <<from, symbol>>
    IN  \/ entry.state = from /\ (entry.node.extra \/ entry.node.error)
        \/ /\ cell \in DOMAIN l.action
           /\ \E a \in Alternatives(l, cell) :
                 a.type = "shift" /\ entry.state = a.state
        \/ entry.state = GotoState(l, from, symbol)
        \/ symbol = ErrorSymbol /\ entry.state \in RecoveryStates(l)

\* Every stack is a path of the automaton from its initial state, whatever
\* was merged, forked, reduced across extras, or cut back for recovery: a
\* reduction may pop neither too much nor too little, and looks its goto up
\* in the state it uncovers.  The bottom entry is never popped, so top()
\* never reads an empty stack.
IsPath(l, s) ==
    /\ Len(s.entries) > 0
    /\ s.entries[1].state = l.initial
    /\ \A k \in 2 .. Len(s.entries) :
          Follows(l, s.entries[k - 1].state, s.entries[k])
StacksFollowTables == \A k \in DOMAIN stacks : IsPath(lang, stacks[k])

\* No stack holds a token twice or out of source order.  The comment at the
\* end of the loop (parser.go:878) keeps the token for "the reducing stacks";
\* a stack that has already consumed it sees it again, which is why the
\* property ends where some round was out of step.
Disjoint(s) ==
    \A k \in DOMAIN s.entries : \A j \in 1 .. k - 1 :
        \A a \in s.entries[j].node.tokens, b \in s.entries[k].node.tokens : a < b
InOrder == \A k \in DOMAIN stacks : Disjoint(stacks[k])
TokensInOrder == "outOfStep" \notin incidents => InOrder

\* What parseNodeLimit promises, "the hard ceiling that prevents OOM
\* regardless of iteration count": the count stops growing within one round
\* of passing it, whatever number of stacks the round serves.  A stack's turn
\* allocates a node for each alternative at most, or one for an error.
Forks == {1} \cup {Len(lang.action[cell]) : cell \in DOMAIN lang.action}
MaxForks == CHOOSE n \in Forks : \A m \in Forks : m <= n
NodesAreBounded == nodeCount <= MaxNodes + MaxStacks * MaxForks
=============================================================================
