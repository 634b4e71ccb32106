----------------------------- MODULE QueryMatching -----------------------------
(***************************************************************************)
(* The matcher of query.go: a pattern is a flat sequence of steps with a   *)
(* nesting depth, tried against a node and, by backtracking over the       *)
(* quantifiers, against its children.  Captures are appended to one list   *)
(* while the match is tried and are cut off again when a try fails, so a   *)
(* result is a pair of an outcome and of the captures left behind, also    *)
(* when the outcome is a failure.                                          *)
(*                                                                         *)
(* A document is a tree of nodes 1 .. n in preorder: kind, parent, field   *)
(* (of the node in its parent) and text by node, kids by node in order.    *)
(***************************************************************************)
EXTENDS Integers, Sequences, FiniteSets

CONSTANTS Named,            \* the kinds of named nodes; the others are anonymous
          HasProperty(_, _) \* capturePropertyMatches: what a capture's name says

Wild == "_"      \* symbol 0 of a step, and the absence of a text or a field
Nobody == 0      \* a nil node
NoNamed == -1    \* no named child, where a position among them is asked for

IsNamed(doc, n) == doc.kind[n] \in Named
Children(doc, n) == doc.kids[n]

\* The first child assigned to the field.
ChildByFieldName(doc, n, f) ==
    LET with == {i \in DOMAIN doc.kids[n] : doc.field[doc.kids[n][i]] = f}
    IN  IF with = {} THEN Nobody
        ELSE doc.kids[n][CHOOSE i \in with : \A j \in with : i <= j]

RECURSIVE Ancestors(_, _)
Ancestors(doc, n) ==
    IF doc.parent[n] = Nobody THEN {}
    ELSE {doc.parent[n]} \cup Ancestors(doc, doc.parent[n])

Capture(names, n) == [i \in DOMAIN names |-> [name |-> names[i], node |-> n]]

Ok(caps)     == [ok |-> TRUE, caps |-> caps]
Failed(caps) == [ok |-> FALSE, caps |-> caps]
RollbackForgotten(caps, checkpoint) == caps   \* faulty variant
Rollback(caps, checkpoint) == SubSeq(caps, 1, checkpoint)
-----------------------------------------------------------------------------
(* Predicates, over the captures of a whole match. *)

CaptureNodes(name, caps) ==
    {caps[i].node : i \in {j \in DOMAIN caps : caps[j].name = name}}

\* The text of the first node captured under the name, in a set of at most
\* one text: none without such a capture, or without a source.
CaptureText(doc, name, caps) ==
    {doc.text[caps[i].node] :
        i \in {j \in DOMAIN caps :
                 /\ doc.source /\ caps[j].name = name
                 /\ \A k \in 1 .. j - 1 : caps[k].name # name}}

\* What an equality compares with: another capture's text, or a literal.
Compared(doc, pred, caps) ==
    IF pred.right # Wild THEN CaptureText(doc, pred.right, caps) ELSE pred.values

NodeHasAncestorType(doc, n, kinds) ==
    \E a \in Ancestors(doc, n) : doc.kind[a] \in kinds

PredicateIsSatisfied(pred, caps) ==
    \E i \in DOMAIN caps :
        /\ pred.left # Wild => caps[i].name = pred.left
        /\ HasProperty(caps[i].name, pred.right)

\* #match? and #lua-match? hold of a set of texts, like #any-of?.
PredicateHolds(doc, pred, caps) ==
    LET left  == CaptureText(doc, pred.left, caps)
        nodes == CaptureNodes(pred.left, caps)
    IN CASE pred.kind = "eq"     -> left # {} /\ left = Compared(doc, pred, caps)
         [] pred.kind = "not-eq" -> /\ left # {} /\ Compared(doc, pred, caps) # {}
                                    /\ left # Compared(doc, pred, caps)
         [] pred.kind = "any-of"     -> left # {} /\ left \subseteq pred.values
         [] pred.kind = "not-any-of" -> left # {} /\ left \cap pred.values = {}
         [] pred.kind = "has-ancestor" ->
                \E n \in nodes : NodeHasAncestorType(doc, n, pred.values)
         [] pred.kind = "not-has-ancestor" ->
                nodes # {} /\ \A n \in nodes : ~ NodeHasAncestorType(doc, n, pred.values)
         [] pred.kind = "not-has-parent" ->
                nodes # {} /\ \A n \in nodes : doc.parent[n] # Nobody =>
                                  doc.kind[doc.parent[n]] \notin pred.values
         [] pred.kind = "is"     -> PredicateIsSatisfied(pred, caps)
         [] pred.kind = "is-not" -> ~ PredicateIsSatisfied(pred, caps)
         [] pred.kind = "set"    -> TRUE

MatchesPredicates(doc, preds, caps) ==
    \A i \in DOMAIN preds : PredicateHolds(doc, preds[i], caps)
-----------------------------------------------------------------------------
(* One step against one node. *)

TextMatches(doc, n, text) == ~ IsNamed(doc, n) /\ doc.kind[n] = text

AlternativeMatchesNode(doc, alt, n) ==
    \/ alt.sym = Wild /\ alt.text = Wild
    \/ alt.text # Wild /\ TextMatches(doc, n, alt.text)
    \/ /\ alt.text = Wild /\ doc.kind[n] = alt.sym
       /\ IsNamed(doc, n) = alt.isNamed

SymbolMatches(doc, step, n) ==
    /\ doc.kind[n] = step.sym
    /\ step.isNamed => IsNamed(doc, n)
    /\ \A f \in step.absent : ChildByFieldName(doc, n, f) = Nobody

NodeMatchesStep(doc, step, n) ==
    IF step.alts # << >>
    THEN \E i \in DOMAIN step.alts : AlternativeMatchesNode(doc, step.alts[i], n)
    ELSE \/ step.text # Wild /\ TextMatches(doc, n, step.text)
         \/ step.text = Wild /\ (step.sym = Wild \/ SymbolMatches(doc, step, n))
-----------------------------------------------------------------------------
(* The children of a node against the child steps of a step. *)

\* quantifierBounds, cut to the candidates there are.
MinCount(quant) == IF quant \in {"one", "plus"} THEN 1 ELSE 0
MaxCount(quant, available) ==
    IF quant \in {"star", "plus"} \/ available = 0 THEN available ELSE 1

\* The steps one level below step i, up to the next one that is not below it.
ChildSteps(steps, i) ==
    SelectSeq([k \in 1 .. Len(steps) |-> k],
              LAMBDA k : /\ k > i /\ steps[k].depth = steps[i].depth + 1
                         /\ \A j \in i + 1 .. k : steps[j].depth > steps[i].depth)

\* The position of a child among the named ones, counted from 0.
NamedPos(doc, parent, i) ==
    LET named == {j \in 1 .. i : IsNamed(doc, Children(doc, parent)[j])}
    IN  IF i \in named THEN Cardinality(named) - 1 ELSE NoNamed

ParentLastNamedPos(doc, parent) ==
    Cardinality({i \in DOMAIN Children(doc, parent) :
                    IsNamed(doc, Children(doc, parent)[i])}) - 1

\* Where step number pos of the child steps may go on: from index next of the
\* children on, or at the field's one child.
CandidateIndices(doc, parent, step, next) ==
    LET kids == Children(doc, parent)
    IN  SelectSeq([i \in 1 .. Len(kids) |-> i],
                  LAMBDA i : /\ i >= next
                             /\ step.field # Wild =>
                                   kids[i] = ChildByFieldName(doc, parent, step.field)
                             /\ NodeMatchesStep(doc, step, kids[i]))

\* span: the first and last named positions chosen for this step; before: the
\* last one chosen for the step before it.
StepAnchorsSatisfied(step, pos, span, before, parentLast) ==
    /\ step.anchorBefore =>
          /\ span.last # NoNamed
          /\ IF pos = 1 THEN span.first = 0
             ELSE before # NoNamed /\ span.first = before + 1
    /\ step.anchorAfter => span.last # NoNamed /\ span.last = parentLast

Widen(span, p) ==
    CASE p = NoNamed         -> span
      [] span.last = NoNamed -> [first |-> p, last |-> p]
      [] OTHER               -> [span EXCEPT !.last = p]
-----------------------------------------------------------------------------
(* The matcher proper.  at: a child step being tried, as the node whose     *)
(* children it is about (parent), the child steps (list, indices into       *)
(* steps), which of them (pos) and the last named position chosen for the   *)
(* one before (before).                                                     *)

RECURSIVE MatchSteps(_, _, _, _, _), MatchChildSteps(_, _, _, _),
          TryCounts(_, _, _, _, _, _), TryCombinations(_, _, _, _, _, _, _, _),
          MatchAlternation(_, _, _, _, _)

MatchSteps(doc, steps, i, n, caps) ==
    LET step  == steps[i]
        here  == IF step.alts # << >> THEN MatchAlternation(doc, step, 1, n, caps)
                 ELSE IF NodeMatchesStep(doc, step, n)
                 THEN Ok(caps \o Capture(step.caps, n)) ELSE Failed(caps)
        below == ChildSteps(steps, i)
    IN  IF ~ here.ok \/ below = << >> THEN here
        ELSE MatchChildSteps(doc, [parent |-> n, steps |-> steps, list |-> below,
                                   pos |-> 1, before |-> NoNamed], 1, here.caps)

MatchStepWithRollback(doc, steps, i, n, caps) ==
    LET r == MatchSteps(doc, steps, i, n, caps)
    IN  IF r.ok THEN r ELSE Failed(Rollback(r.caps, Len(caps)))

\* The child steps from at.pos on, against the children from index next on.
MatchChildSteps(doc, at, next, caps) ==
    IF at.pos > Len(at.list) THEN Ok(caps)
    ELSE LET step  == at.steps[at.list[at.pos]]
             cands == CandidateIndices(doc, at.parent, step, next)
         IN  TryCounts(doc, at, cands, MaxCount(step.quant, Len(cands)), next, caps)

\* As many candidates as the quantifier allows, then one fewer.
TryCounts(doc, at, cands, count, next, caps) ==
    IF count < MinCount(at.steps[at.list[at.pos]].quant) THEN Failed(caps)
    ELSE LET r == TryCombinations(doc, at, cands, count, 1, next,
                                  [first |-> NoNamed, last |-> NoNamed], caps)
         IN  IF r.ok THEN r
             ELSE TryCounts(doc, at, cands, count - 1, next,
                            Rollback(r.caps, Len(caps)))

\* Choose count more of the candidates from number i on.
TryCombinations(doc, at, cands, count, i, next, span, caps) ==
    LET step == at.steps[at.list[at.pos]]
        kids == Children(doc, at.parent)
    IN CASE count = 0 /\ StepAnchorsSatisfied(step, at.pos, span, at.before,
                                 ParentLastNamedPos(doc, at.parent)) ->
                MatchChildSteps(doc, [at EXCEPT !.pos = @ + 1, !.before = span.last],
                                next, caps)
         [] count > 0 /\ i + count - 1 <= Len(cands) ->
                LET one  == MatchStepWithRollback(doc, at.steps, at.list[at.pos],
                                                  kids[cands[i]], caps)
                    rest == IF ~ one.ok THEN one
                            ELSE TryCombinations(doc, at, cands, count - 1, i + 1,
                                   cands[i] + 1,
                                   Widen(span, NamedPos(doc, at.parent, cands[i])),
                                   one.caps)
                IN  IF rest.ok THEN rest
                    ELSE TryCombinations(doc, at, cands, count, i + 1, next, span,
                                         Rollback(rest.caps, Len(caps)))
         [] OTHER -> Failed(caps)

\* The first branch, from number b on, that matches with its own steps and
\* predicates; the alternation's captures come first.
MatchAlternation(doc, step, b, n, caps) ==
    IF b > Len(step.alts) THEN Failed(caps)
    ELSE LET alt    == step.alts[b]
             outer  == caps \o Capture(step.caps, n)
             nested == MatchStepWithRollback(doc, alt.steps, 1, n, outer)
             r      == CASE ~ AlternativeMatchesNode(doc, alt, n) -> Failed(caps)
                         [] alt.steps = << >> -> Ok(outer \o Capture(alt.caps, n))
                         [] nested.ok /\ MatchesPredicates(doc, alt.preds, nested.caps) ->
                                nested
                         [] OTHER -> Failed(Rollback(nested.caps, Len(caps)))
         IN  IF r.ok THEN r ELSE MatchAlternation(doc, step, b + 1, n, r.caps)

\* The captures of the pattern at the node, in a set of at most one sequence.
\* The predicates judge the first way the steps match, and only that.
MatchPattern(doc, pattern, n) ==
    LET r == MatchSteps(doc, pattern.steps, 1, n, << >>)
    IN  IF r.ok /\ MatchesPredicates(doc, pattern.preds, r.caps) THEN {r.caps} ELSE {}
=============================================================================
