------------------------------- MODULE MCQueries -------------------------------
(***************************************************************************)
(* Queries over small documents: the cursor of QueryCursor, over the       *)
(* matcher of QueryMatching and the compiler of QueryPatterns, held        *)
(* against what patterns mean; then Highlighter on what was found.         *)
(***************************************************************************)
EXTENDS Highlighter, QueryPatterns

NamedKinds == {"a", "b", "c"}
IsProperty(name, property) == name = property
-----------------------------------------------------------------------------
(* Documents, built from their leaves. *)

T(kind, field, text, kids) == [kind |-> kind, field |-> field, text |-> text, kids |-> kids]

RECURSIVE Preorder(_, _, _)
\* The nodes of a tree in preorder, numbered from base on.
Preorder(tree, base, parent) ==
    LET Add(nodes, kid) == nodes \o Preorder(kid, base + Len(nodes), base)
    IN  FoldLeft(Add, <<[kind |-> tree.kind, field |-> tree.field, text |-> tree.text,
                         parent |-> parent, leaf |-> tree.kids = << >>]>>, tree.kids)

Document(tree, source) ==
    LET nodes == Preorder(tree, 1, Nobody)
        N     == DOMAIN nodes
        kids  == [n \in N |-> SelectSeq([i \in N |-> i], LAMBDA i : nodes[i].parent = n)]
        last  == [n \in N |->   \* the last node below n, or n
                    Max({n} \cup {i \in N : i > n /\ \A j \in n + 1 .. i : nodes[j].parent >= n})]
        Bytes(m) == Cardinality({i \in 1 .. m : nodes[i].leaf /\ nodes[i].text # ""})
    IN  [kind   |-> [n \in N |-> nodes[n].kind],   field |-> [n \in N |-> nodes[n].field],
         text   |-> [n \in N |-> nodes[n].text],   parent |-> [n \in N |-> nodes[n].parent],
         kids   |-> kids,                          source |-> source,
         start  |-> [n \in N |-> Bytes(n - 1)],    stop |-> [n \in N |-> Bytes(last[n])]]

Leaves == {T("b", Wild, "1", << >>), T("b", "f", "2", << >>), T("c", Wild, "1", << >>),
           T("x", Wild, "x", << >>)}
Empty  == T("b", Wild, "", << >>)
Inner  == {T("b", f, "in", <<k>>) : f \in {Wild, "f"}, k \in Leaves}
Roots(kids) == {T("a", Wild, "all", k) : k \in kids}

FlatDocuments == {Document(t, TRUE) : t \in Roots(BoundedSeq(Leaves, 3))}
DeepDocuments ==
    {Document(t, TRUE) : t \in Roots({<<i, k>> : i \in Inner, k \in Leaves}
                                     \cup {<<k, i>> : i \in Inner, k \in Leaves})}
    \cup {Document(T("a", Wild, "all", <<T("a", Wild, "in", <<i, Empty>>)>>), TRUE) : i \in Inner}
BareDocuments == {Document(t, FALSE) : t \in Roots(BoundedSeq(Leaves, 1))}

\* Nodes 1 to 4 of OddTree are a(b(b, x)).  In the documents after it the last
\* node is an extra behind its parent, overlaps it without nesting, and starts
\* behind its end after an edit.
OddTree == Document(T("a", Wild, "all", <<T("b", Wild, "in", <<T("b", Wild, "1", << >>),
                                                               T("x", Wild, "x", << >>)>>)>>), TRUE)
OddDocuments ==
    {[OddTree EXCEPT !.start = <<0, 0, from, extra>>, !.stop = <<stop, 2, 2, end>>] :
        from \in {0, 1}, stop \in {2, 3, 4}, extra \in {1, 2, 3}, end \in {2, 4}}
-----------------------------------------------------------------------------
(* Query texts. *)

E(form, kind, branches, items, caps, quant) ==
    [form |-> form, kind |-> kind, branches |-> branches, items |-> items,
     caps |-> caps, quant |-> quant]
Node(kind, items, caps, quant) == E("node", kind, << >>, items, caps, quant)
Str(text, caps, quant)         == E("string", text, << >>, << >>, caps, quant)
Alt(branches, caps, quant)     == E("alt", Wild, branches, << >>, caps, quant)

Child(field, e) == <<[tag |-> "child", field |-> field, elem |-> e]>>
Anchor    == <<[tag |-> "anchor"]>>
Absent(f) == <<[tag |-> "absent", field |-> f]>>
Pred(kind, left, right, values) ==
    <<[tag |-> "pred", pred |-> [kind |-> kind, left |-> left, right |-> right,
                                 values |-> values]]>>
Perhaps(item) == {<< >>, item}

Quantifiers == {"one", "opt", "star", "plus"}

\* One child with every quantifier, then perhaps another, anchors anywhere.
ListPatterns ==
    {Node("a", u \o Child(Wild, e) \o v \o w \o z, <<"r">>, "one") :
        e \in UNION {{Node("b", << >>, <<"p">>, q), Node(Wild, << >>, <<"p">>, q),
                      Alt(<<Node("b", << >>, <<"s">>, "one"), Str("x", << >>, "one")>>,
                          <<"p">>, q)} : q \in Quantifiers},
        u \in Perhaps(Anchor), v \in Perhaps(Anchor), z \in Perhaps(Anchor),
        w \in {<< >>, Child(Wild, Node("b", << >>, <<"q">>, "one")),
               Child(Wild, Str("x", <<"q">>, "star"))}}

FieldPatterns ==
    {Node("a", u \o Child("f", Node(k, << >>, <<"p">>, q)) \o w, <<"r">>, "one") :
        k \in {"b", Wild}, q \in {"one", "opt"}, u \in Perhaps(Absent("f")),
        w \in {<< >>, Child(Wild, Node("c", << >>, <<"q">>, "one"))}}
    \cup {Node(Wild, Child("f", Node("b", << >>, <<"p">>, "one")), << >>, "one")}

\* Grandchildren: a try that fails below has captured nodes already.
DeepPatterns ==
    {Node("a", Child(Wild, Node("b", Child(Wild, g), <<"p">>, q)) \o w, <<"r">>, "one") :
        g \in {Node("c", << >>, <<"g">>, "one"), Str("x", <<"g">>, "star"),
               Alt(<<Node("b", << >>, <<"g">>, "one"), Node("c", << >>, <<"h">>, "one")>>,
                   << >>, "one")},
        q \in Quantifiers, w \in {<< >>, Child(Wild, Node("c", << >>, <<"q">>, "plus"))}}
    \cup {Alt(<<Node("b", Child(Wild, Node(k, << >>, <<"p">>, "one")), <<"q">>, "one"),
                Node("b", << >>, <<"s">>, "one"), Str("x", << >>, "one")>>, <<"r">>, "one") :
            k \in {"b", "c"}}

PredicatePatterns ==
    {Node("a", Child(Wild, Node(Wild, << >>, <<"p">>, q)) \o Child(Wild, Node(Wild, << >>, <<"q">>, q))
               \o pred, << >>, "one") :
        q \in {"one", "opt"},
        pred \in {Pred(k, "p", "q", {}) : k \in {"eq", "not-eq"}}
                 \cup {Pred(k, "q", Wild, {"1"}) : k \in {"eq", "not-eq"}}
                 \cup {Pred(k, "p", Wild, {"1", "x"}) : k \in {"any-of", "not-any-of"}}}
    \cup {Node(Wild, pred, <<"p">>, "one") :
            pred \in {Pred(k, "p", Wild, {"a"}) :
                         k \in {"has-ancestor", "not-has-ancestor", "not-has-parent"}}
                     \cup {Pred(k, l, "p", {}) : k \in {"is", "is-not"}, l \in {Wild, "p", "q"}}
                     \cup {Pred("set", "p", Wild, {}) \o Pred("eq", "p", Wild, {"x"})}}
    \cup {Node("a", Child(Wild, Alt(<<Node("b", Pred("eq", "p", Wild, {"1"}), <<"p">>, "one"),
                                      Node(Wild, << >>, <<"q">>, "one")>>, <<"r">>, q)),
               << >>, "one") : q \in {"one", "opt"}}
-----------------------------------------------------------------------------
(* Queries and what they are run on. *)

\* mixed: the caller uses NextCapture as well as NextMatch.
Query(texts, mixed) == [texts |-> texts, patterns |-> NewQuery(texts), mixed |-> mixed]
Batch(patterns) == Query(FoldSet(LAMBDA e, q : Append(q, e), << >>, patterns), FALSE)

\* The patterns of a set, split by how many items they have.
Batches(patterns) ==
    {Batch({e \in patterns : Len(e.items) = k}) : k \in {Len(e.items) : e \in patterns}}

SmallQueries ==
    {Query(q, TRUE) : q \in
        {<<Node(Wild, << >>, << >>, "one"), Node("b", << >>, <<"p">>, "one")>>,
         <<Str("x", <<"x">>, "one"),
           Node("a", Child(Wild, Node("b", << >>, <<"p">>, "star")), <<"r">>, "one")>>,
         <<Node("b", << >>, <<"p", "q">>, "one"), Node("a", << >>, <<"r">>, "one"),
           Alt(<<Node("b", << >>, <<"s">>, "one"), Node("c", << >>, << >>, "one")>>,
               << >>, "one")>>}}

On(documents, queries) == [doc : documents, query : queries]
AllCases ==
    On({d \in FlatDocuments : "c" \notin ToSet(d.kind)}, Batches(ListPatterns))
    \cup On(FlatDocuments, {Batch(FieldPatterns)})
    \cup On(DeepDocuments, {Batch(DeepPatterns), Batch(PredicatePatterns)})
    \cup On(FlatDocuments \cup BareDocuments, {Batch(PredicatePatterns)})
    \cup On(OddDocuments, {Query(<<Alt(<<Node(Wild, << >>, <<"p">>, "one"),
                                         Str("x", <<"x">>, "one")>>, << >>, "one"),
                                   Node("a", << >>, <<"r">>, "one")>>, FALSE)})
    \cup On({d \in FlatDocuments : Len(d.kind) <= 3} \cup DeepDocuments, SmallQueries)

MCCandidates(q, kind)  == RootPatternCandidates(q.patterns, kind)
MCMatches(d, q, p, n)  == MatchPattern(d, q.patterns[p], n)

\* Callers of the batches only ever ask for matches.
MCNext == HighlightNext /\ (call' = "capture" => query.mixed)
MCSpec == HighlightInit /\ [][MCNext]_highlightVars
-----------------------------------------------------------------------------
\* A match that is handed out is one of the ways its pattern holds at its
\* node: no capture of an abandoned try is left in it, none is missing.
MatchesAreMeant ==
    \A i \in DOMAIN found :
        i = Len(found) =>
            found[i].caps \in Meaning(doc, query.texts[found[i].pattern], found[i].node)

\* The pattern's predicates judge the first way its steps match; another way
\* they would accept is not tried (query.go:425-433).
JudgedOnFirstWay(e, n) ==
    PredicatesOf(e) # {} /\ Cardinality(Ways(doc, e, n)) > 1
\* A field's child is the first with that field, and only that (tree.go:155).
FieldIsRepeated(n) ==
    \E i, j \in DOMAIN doc.kids[n] :
        /\ i # j /\ doc.field[doc.kids[n][i]] = doc.field[doc.kids[n][j]]
        /\ doc.field[doc.kids[n][i]] # Wild
UsesField(e) == \E i \in DOMAIN e.items : e.items[i].tag = "child" /\ e.items[i].field # Wild

\* Without a source the code fails the predicates on text (query.go:670-680)
\* that README.md:106 says are disabled, and misses their matches, as
\* query_test.go:1967-1970 expects of it.
TextIsMissing(e) == \E pred \in PredicatesOf(e) : IsDisabled(doc, pred)

\* When the walk has ended, each pattern was matched at each node where it
\* holds, whatever the index by root symbol left out, except for the three
\* cases above.
NothingIsMissed ==
    done /\ spans = << >> =>
        \A p \in DOMAIN query.texts : \A n \in DOMAIN doc.kind :
            LET e == query.texts[p]
            IN  \/ \E i \in DOMAIN found : found[i].pattern = p /\ found[i].node = n
                \/ JudgedOnFirstWay(e, n) \/ (UsesField(e) /\ FieldIsRepeated(n))
                \/ TextIsMissing(e)
                \/ Meaning(doc, e, n) = {}
=============================================================================
