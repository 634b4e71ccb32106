----------------------------- MODULE QueryPatterns -----------------------------
(***************************************************************************)
(* From the text of a query to the steps QueryMatching runs (queryParser   *)
(* in query.go), and the index of patterns by the symbol of their root.    *)
(*                                                                         *)
(* The text is given as a tree of elements:                                *)
(*   form      "node" (kind ...), "string" or "alt" [...]                  *)
(*   kind      of the node, or the string; Wild for _                      *)
(*   branches  of an alternation, elements each                            *)
(*   items     between the parentheses, in order: "child" (with the field  *)
(*             it is marked with, or Wild), "anchor", "absent" or "pred"   *)
(*   caps      names of its captures; quant: its quantifier                *)
(* A group ((a) ...) adds its items and captures to those of its first     *)
(* element, so it is written as that element here.                         *)
(***************************************************************************)
EXTENDS QueryMatching, SequencesExt, FiniteSetsExt

Step(depth, e) ==
    [depth |-> depth,
     sym   |-> IF e.form = "node" THEN e.kind ELSE Wild,
     text  |-> IF e.form = "string" THEN e.kind ELSE Wild,
     isNamed |-> e.form = "node" /\ e.kind \in Named,
     alts |-> << >>, caps |-> e.caps, quant |-> e.quant, field |-> Wild,
     anchorBefore |-> FALSE, anchorAfter |-> FALSE,
     absent |-> {e.items[i].field : i \in {j \in DOMAIN e.items : e.items[j].tag = "absent"}}]

\* A branch with nothing but a root keeps the root's symbol and captures; any
\* other keeps its steps and predicates.
Alternative(branch) ==
    LET root   == branch.steps[1]
        simple == Len(branch.steps) = 1 /\ branch.preds = << >>
    IN  [sym |-> root.sym, isNamed |-> root.isNamed, text |-> root.text,
         caps  |-> IF simple THEN root.caps ELSE << >>,
         steps |-> IF simple THEN << >> ELSE branch.steps,
         preds |-> branch.preds]

\* appendChildPattern: an anchor read before a child marks the child's root.
AppendChild(pat, child, field) ==
    LET root == [child.steps[1] EXCEPT !.field = IF field = Wild THEN @ ELSE field,
                                       !.anchorBefore = @ \/ pat.pendingAnchor]
    IN  [steps |-> pat.steps \o <<root>> \o Tail(child.steps),
         preds |-> pat.preds \o child.preds,
         pendingAnchor |-> FALSE, lastChild |-> Len(pat.steps) + 1]

\* An anchor left over at the closing parenthesis marks the last child's root.
CloseItems(pat) ==
    [steps |-> IF pat.pendingAnchor /\ pat.lastChild # Nobody
               THEN [pat.steps EXCEPT ![pat.lastChild].anchorAfter = TRUE]
               ELSE pat.steps,
     preds |-> pat.preds]

RECURSIVE ParsePatternElement(_, _)
ParsePatternElement(depth, e) ==
    LET branches == [b \in DOMAIN e.branches |->
                        Alternative(ParsePatternElement(depth, e.branches[b]))]
        root     == [Step(depth, e) EXCEPT !.alts = branches]
        Item(pat, item) ==
            CASE item.tag = "anchor" -> [pat EXCEPT !.pendingAnchor = TRUE]
              [] item.tag = "pred"   -> [pat EXCEPT !.preds = Append(@, item.pred)]
              [] item.tag = "absent" -> pat
              [] item.tag = "child"  ->
                    AppendChild(pat, ParsePatternElement(depth + 1, item.elem), item.field)
    IN  CloseItems(FoldLeft(Item, [steps |-> <<root>>, preds |-> << >>,
                                   pendingAnchor |-> FALSE, lastChild |-> Nobody],
                            e.items))

\* A query is a sequence of elements at the top level.
NewQuery(elements) ==
    [p \in DOMAIN elements |-> ParsePatternElement(0, elements[p])]
-----------------------------------------------------------------------------
(* buildRootPatternIndex: which patterns are tried at a node of some kind. *)

IsComplex(step) ==
    IF step.alts # << >>
    THEN \E i \in DOMAIN step.alts : step.alts[i].text # Wild \/ step.alts[i].sym = Wild
    ELSE step.text # Wild

IsWildcard(step) == step.alts = << >> /\ step.text = Wild /\ step.sym = Wild

RootSymbols(step) ==
    IF step.alts # << >> THEN {step.alts[i].sym : i \in DOMAIN step.alts} ELSE {step.sym}

Increasing(numbers) ==
    SelectSeq([p \in 1 .. Max(numbers \cup {0}) |-> p], LAMBDA p : p \in numbers)

\* Two increasing lists in one.
MergePatternIndexLists(a, b) == Increasing(ToSet(a) \cup ToSet(b))

ExactPatterns(patterns, kind) ==
    Increasing({p \in DOMAIN patterns :
                  LET step == patterns[p].steps[1]
                  IN  /\ ~ IsComplex(step) /\ ~ IsWildcard(step)
                      /\ kind \in RootSymbols(step)})
WildcardPatterns(patterns) ==
    Increasing({p \in DOMAIN patterns : IsWildcard(patterns[p].steps[1])})
ComplexPatterns(patterns) ==
    Increasing({p \in DOMAIN patterns : IsComplex(patterns[p].steps[1])})

\* Faulty variant: patterns with a wildcard root are left to the fallback list.
RootPatternCandidatesExactFirst(patterns, kind) ==
    LET exact == ExactPatterns(patterns, kind)
    IN  IF exact = << >>
        THEN MergePatternIndexLists(WildcardPatterns(patterns), ComplexPatterns(patterns))
        ELSE exact

RootPatternCandidates(patterns, kind) ==
    MergePatternIndexLists(
        ExactPatterns(patterns, kind),
        MergePatternIndexLists(WildcardPatterns(patterns), ComplexPatterns(patterns)))

-----------------------------------------------------------------------------
(* The reference: what a pattern of a query says of a document, read off   *)
(* its text.  It is the set of all ways to capture nodes under which the   *)
(* pattern holds at a node.  Nothing here tries, orders or takes back: a   *)
(* pattern's children are some choice of sets of the node's children, in   *)
(* order.                                                                  *)

\* A pattern's children, each with the anchors beside it.
ChildItems(e) ==
    LET IsChild(i) == e.items[i].tag = "child"
        children   == SelectSeq([i \in DOMAIN e.items |-> i], IsChild)
        Anchored(from, to) == \E j \in from + 1 .. to - 1 : e.items[j].tag = "anchor"
    IN  [k \in DOMAIN children |->
            [field |-> e.items[children[k]].field, elem |-> e.items[children[k]].elem,
             anchorBefore |-> Anchored(IF k = 1 THEN 0 ELSE children[k - 1], children[k]),
             anchorAfter  |-> k = Len(children) /\ Anchored(children[k], Len(e.items) + 1)]]

Several(elem, set) ==
    /\ elem.quant \in {"one", "plus"} => set # {}
    /\ elem.quant \in {"one", "opt"} => Cardinality(set) <= 1

\* chosen[k]: the children of n that item k stands for.  An anchor is about
\* named children only: no named child lies between what it joins.
IsChoice(doc, n, items, chosen) ==
    LET named     == {i \in DOMAIN doc.kids[n] : IsNamed(doc, doc.kids[n][i])}
        Gone(k)   == IF k = 0 THEN {0} ELSE chosen[k] \cap named
        Near(k)   == chosen[k] \cap named
    IN  /\ \A k \in DOMAIN items : Several(items[k].elem, chosen[k])
        /\ \A k, l \in DOMAIN items : k < l =>
              \A i \in chosen[k], j \in chosen[l] : i < j
        /\ \A k \in DOMAIN items : items[k].field # Wild =>
              \A i \in chosen[k] : doc.field[doc.kids[n][i]] = items[k].field
        /\ \A k \in DOMAIN items : items[k].anchorBefore =>
              /\ Near(k) # {} /\ Gone(k - 1) # {}
              /\ ~ \E i \in named : Max(Gone(k - 1)) < i /\ i < Min(Near(k))
        /\ \A k \in DOMAIN items : items[k].anchorAfter =>
              Near(k) # {} /\ Max(Near(k)) = Max(named)

\* What the predicates of a pattern judge: those written in it and below it,
\* except in the branches of alternations.
RECURSIVE PredicatesOf(_)
PredicatesOf(e) ==
    UNION {CASE e.items[i].tag = "pred"  -> {e.items[i].pred}
             [] e.items[i].tag = "child" -> PredicatesOf(e.items[i].elem)
             [] OTHER -> {} : i \in DOMAIN e.items}
\* "Text predicates (...) require source []byte to evaluate.  Passing nil
\* disables predicate checks." (README.md:106)
TextKinds == {"eq", "not-eq", "any-of", "not-any-of"}
IsDisabled(doc, pred) == ~ doc.source /\ pred.kind \in TextKinds
Judged(doc, e, ways) ==
    {caps \in ways : \A pred \in PredicatesOf(e) :
                        IsDisabled(doc, pred) \/ PredicateHolds(doc, pred, caps)}

\* Ways to capture along a sequence of sets of ways.
Joined(ways) == FoldLeft(LAMBDA before, now : {b \o w : b \in before, w \in now},
                         {<< >>}, ways)

NodeIs(doc, e, n) ==
    CASE e.form = "string" -> TextMatches(doc, n, e.kind)
      [] e.form = "node"   ->
            /\ e.kind = Wild \/ doc.kind[n] = e.kind
            /\ \A i \in DOMAIN e.items : e.items[i].tag = "absent" =>
                  \A j \in DOMAIN doc.kids[n] :
                      doc.field[doc.kids[n][j]] # e.items[i].field

RECURSIVE Ways(_, _, _)
Ways(doc, e, n) ==
    LET items  == ChildItems(e)
        kids   == doc.kids[n]
        here   == IF e.form = "alt"
                  THEN UNION {Judged(doc, e.branches[b], Ways(doc, e.branches[b], n)) :
                                 b \in DOMAIN e.branches}
                  ELSE IF NodeIs(doc, e, n) THEN {<< >>} ELSE {}
        Item(k, set) ==
            LET list == SelectSeq([i \in DOMAIN kids |-> i], LAMBDA i : i \in set)
            IN  Joined([i \in DOMAIN list |-> Ways(doc, items[k].elem, kids[list[i]])])
        below  == {chosen \in [DOMAIN items -> SUBSET DOMAIN kids] :
                      IsChoice(doc, n, items, chosen)}
    IN  {Capture(e.caps, n) \o h \o c : h \in here,
            c \in UNION {Joined([k \in DOMAIN items |-> Item(k, chosen[k])]) :
                            chosen \in below}}

\* All ways for a pattern to hold at a node: its predicates hold of the captures.
Meaning(doc, e, n) == Judged(doc, e, Ways(doc, e, n))
=============================================================================
