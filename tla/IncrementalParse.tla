--------------------------- MODULE IncrementalParse ---------------------------
(***************************************************************************)
(* Editing a tree and parsing again (Tree.Edit in tree.go, ParseIncremental*)
(* in parser.go, the reuse cursor of incremental.go).                      *)
(*                                                                         *)
(* The user changes the text, tells the tree of every change with Edit,    *)
(* which moves the spans of its nodes and marks those it overlaps dirty,   *)
(* and then parses again: the parsing loop asks the cursor at every token  *)
(* for the nodes of the old tree that begin there, and pushes the first    *)
(* that fits instead of parsing its text.                                  *)
(*                                                                         *)
(* A tree is the sequence of its nodes in pre-order, in which a node is    *)
(* followed by the rest of its subtree; the cursor walks along it.  The    *)
(* languages are unambiguous, so the loop has one stack, and so short that *)
(* its limits are not met (GLRParser has both).  A character is a byte and *)
(* the text one line: rows and columns move with the bytes.                *)
(***************************************************************************)
EXTENDS Integers, Sequences, FiniteSets, FiniteSetsExt, SequencesExt

CONSTANTS
  Languages,  \* tables by name, as in ExampleLanguages
  Texts,      \* Texts[name]: the sources that are opened
  Inserts,    \* Inserts[name]: what an edit puts in
  MaxEdits    \* bound on the edits of a run

None == "none"
ErrorSymbol == "ERROR"

(* Tables, as in GLRParser, for one stack: no forks and no recovery.  The  *)
(* end is never shifted, and no reduction takes nothing off the stack (of  *)
(* a tree-sitter grammar only the start rule may be empty).                *)
TableAction ==
  [type : {"shift"}, state : Nat, extra : BOOLEAN]
    \cup [type : {"reduce"}, symbol : STRING, count : Nat \ {0}, prec : Int]
    \cup [type : {"accept"}]

IsTable(l) ==
  /\ l.initial \in Nat
  /\ \A cell \in DOMAIN l.action :
       /\ l.action[cell] \in Seq(TableAction)
       /\ cell[2] = "end" => \A k \in DOMAIN l.action[cell] : l.action[cell][k].type # "shift"
  /\ \A cell \in DOMAIN l.goto : l.goto[cell] \in Nat
  /\ \A cell \in DOMAIN l.scanner : l.scanner[cell] \in [symbol : STRING, next : Nat]

ASSUME EditsBound == MaxEdits \in Nat \ {0}
ASSUME LanguagesAreTables == \A n \in DOMAIN Languages : IsTable(Languages[n])
ASSUME TextsAreBytes ==
  \A n \in DOMAIN Languages : Texts[n] \subseteq Seq(STRING) /\ Inserts[n] \subseteq Seq(STRING)

VARIABLES
  name,    \* the parser's language
  text,    \* the source as the user has it now
  nodes,   \* the tree in pre-order; empty for a nil root
  source,  \* Tree.source: the text it was parsed from
  edits,   \* Tree.edits, as far as the cursor looks: their first bytes
  edited,  \* edits so far
  met      \* history: what a reuse relied on although it does not hold

vars == <<name, text, nodes, source, edits, edited, met>>

lang == Languages[name]

-----------------------------------------------------------------------------
(* Tokens: numbers are runs of digits, comments are runs of "#", blanks    *)
(* are skipped, any other character is a token; but in the lex mode        *)
(* "operand" two slashes around something are a pattern.  Where an         *)
(* external token may come, the language's scanner is asked first: it      *)
(* knows some characters, each as one token or another by the state it is  *)
(* in.                                                                     *)

Slice(s, from, to) == SubSeq(s, from + 1, to)     \* the bytes s[from:to]
Token(symbol, from, to) == [symbol |-> symbol, start |-> from, end |-> to]

Digits == {"1", "2"}
Blanks == {" "}
Comment == "#"
Slash == "/"
RunEnd(s, at, chars) == Min({k \in at .. Len(s) : k = Len(s) \/ s[k + 1] \notin chars})

Mode(state) == IF state \in DOMAIN lang.modes THEN lang.modes[state] ELSE "operator"

Lex(s, at, mode) ==
  LET start == RunEnd(s, at, Blanks)
      closed == {k \in start + 3 .. Len(s) : s[start + 1] = Slash /\ s[k] = Slash}
  IN CASE start = Len(s) -> Token("end", start, start)
       [] mode = "operand" /\ closed # {} -> Token("pattern", start, Min(closed))
       [] start < Len(s) /\ s[start + 1] \in Digits -> Token("n", start, RunEnd(s, start, Digits))
       [] start < Len(s) /\ s[start + 1] = Comment ->
            Token(Comment, start, RunEnd(s, start, {Comment}))
       [] OTHER -> Token(s[start + 1], start, start + 1)

Actions(state, symbol) ==
  IF <<state, symbol>> \in DOMAIN lang.action THEN lang.action[<<state, symbol>>] ELSE << >>

(* The token at a place for a state of the parser and one of the scanner,  *)
(* and the scanner's state behind it.                                      *)
Read(s, at, state, scan) ==
  IF /\ at < Len(s) /\ <<scan, s[at + 1]>> \in DOMAIN lang.scanner
     /\ \E x \in lang.externals : Actions(state, x) # << >>
    THEN LET found == lang.scanner[<<scan, s[at + 1]>>]
         IN [token |-> Token(found.symbol, at, at + 1), scan |-> found.next]
    ELSE [token |-> Lex(s, at, Mode(state)), scan |-> scan]

-----------------------------------------------------------------------------
(* Nodes.  was, by, scans and ahead are history: the span, the state in    *)
(* front, the scanner's states in front and behind, and the lookahead when *)
(* the node was made.  id tells which node it is, as one may be in a tree  *)
(* more than once: in a tree, where it is first; in a parse, a new leaf is *)
(* known by its place, and a new parent (0) is not met again.              *)

Leaf(token, state, by, scans, extra) ==
  <<[symbol |-> token.symbol, start |-> token.start, end |-> token.end, size |-> 1,
     state |-> state, extra |-> extra, error |-> FALSE, dirty |-> FALSE,
     was |-> <<token.start, token.end>>, by |-> by, scans |-> scans,
     ahead |-> None, id |-> - (token.start + 1)]>>

ErrorLeaf(from, to, state, scans) ==
  <<[Leaf(Token(ErrorSymbol, from, to), state, state, scans, FALSE)[1] EXCEPT !.error = TRUE]>>

(* newParentNodeInArena over the subtrees kids, with the end it is given:  *)
(* that of the last kid, or of the last that is no extra.                  *)
Parent(symbol, kids, to, state, by, ahead) ==
  LET from == Head(kids)[1].start
  IN <<[symbol |-> symbol, start |-> from, end |-> to, size |-> 1 + Len(FlattenSeq(kids)),
        state |-> state, extra |-> FALSE, error |-> \E k \in DOMAIN kids : kids[k][1].error,
        dirty |-> FALSE, was |-> <<from, to>>, by |-> by,
        scans |-> <<Head(kids)[1].scans[1], Last(kids)[1].scans[2]>>,
        ahead |-> ahead, id |-> 0]>>
     \o FlattenSeq(kids)

Above(t, i) == {j \in 1 .. i - 1 : j + t[j].size > i}    \* the ancestors of node i

-----------------------------------------------------------------------------
(* The reuse cursor.  A job is a parse: the text, the old tree as edited   *)
(* (empty without one) and the cursor's filter.                            *)

(* nodeBytesEqual: the text of the node's span now, and what the span held *)
(* in the old source.                                                      *)
SameBytes(node, old, new) ==
  /\ node.start <= node.end
  /\ node.end <= Len(old) /\ node.end <= Len(new)
  /\ Slice(old, node.start, node.end) = Slice(new, node.start, node.end)

StillDirty(t, old, new, i) == t[i].dirty /\ ~ SameBytes(t[i], old, new)

FitAndDirty(t, old, new, firstEdit) ==   \* faulty variant: dirty nodes are offered, too
  {i \in DOMAIN t : ~ t[i].error /\ t[i].start < t[i].end /\ t[i].end <= Len(new)}

(* The nodes advance() offers.  A node that ends before the first edit is  *)
(* passed over when one above it is dirty.                                 *)
Fit(t, old, new, firstEdit) ==
  {i \in DOMAIN t :
     /\ ~ StillDirty(t, old, new, i)
     /\ ~ t[i].error /\ t[i].start < t[i].end /\ t[i].end <= Len(new)
     /\ ~ (t[i].end <= firstEdit /\ \E j \in Above(t, i) : StillDirty(t, old, new, j))}

FreshJob(new) == [text |-> new, old |-> << >>, tree |-> << >>, fit |-> {}, root |-> None]

ReuseJob(new, old, t, firstEdit) ==
  [text |-> new, old |-> old, tree |-> t, fit |-> Fit(t, old, new, firstEdit),
   root |-> IF t = << >> THEN None ELSE t[1].symbol]

(* The run of a job: the loop's variables, the cursor's, and met.          *)
Start ==
  [stack |-> <<[state |-> lang.initial, node |-> << >>]>>,
   pos |-> 0, token |-> Token(None, 0, 0), need |-> TRUE, done |-> FALSE,
   scans |-> <<0, 0>>,   \* the scanner's state in front of the token and now
   at |-> 1,             \* the next node of the old tree
   seen |-> 0,           \* the last one the cursor has looked at
   cachedStart |-> -1, cached |-> {}, met |-> {}]

Top(r) == Last(r.stack).state
Push(r, state, node) == [r EXCEPT !.stack = Append(@, [state |-> state, node |-> node])]

Take(r, read) ==
  [r EXCEPT !.token = read.token, !.pos = read.token.end, !.need = FALSE,
            !.scans = <<@[2], read.scan>>]
Fetch(j, r) ==
  IF r.need THEN Take(r, Read(j.text, r.pos, Top(r), r.scans[2])) ELSE r

(* candidates(): pre-order, from where the cursor stands; an earlier start *)
(* than the cached one finds nothing.                                      *)
Seek(j, r) ==
  LET start == r.token.start
      rest == {i \in j.fit : i >= r.at}
      found == {i \in rest : j.tree[i].start = start}
      past == {i \in rest : \/ j.tree[i].start > start
                            \/ j.tree[i].start < start /\ \E k \in found : k < i}
      stop == IF past = {} THEN Len(j.tree) + 1 ELSE Min(past)
  IN IF start <= r.cachedStart THEN r
     ELSE [r EXCEPT !.cachedStart = start, !.at = stop, !.seen = stop,
                    !.cached = {i \in found : i < stop}]

Candidates(r) == IF r.token.start = r.cachedStart THEN r.cached ELSE {}

Shifts(state, symbol) == {a \in Range(Actions(state, symbol)) : a.type = "shift"}

(* reuseTargetState succeeds: a leaf stands for the lookahead, a phrase    *)
(* leads where it led when it was parsed.  An extra leaves the state.      *)
IsExtra(acts) == acts # << >> /\ acts[1].type = "shift" /\ acts[1].extra

Accepts(state, node, token) ==
  IF node.size = 1
    THEN node.symbol = token.symbol /\ Shifts(state, node.symbol) # {}
    ELSE <<state, node.symbol>> \in DOMAIN lang.goto
         /\ lang.goto[<<state, node.symbol>>] = node.state

Target(state, node) ==
  CASE node.size > 1 -> node.state
    [] node.size = 1 /\ IsExtra(Actions(state, node.symbol)) -> state
    [] node.size = 1 /\ ~ IsExtra(Actions(state, node.symbol)) ->
         (CHOOSE a \in Shifts(state, node.symbol) : TRUE).state

Usable(j, r) == {i \in Candidates(r) : Accepts(Top(r), j.tree[i], r.token)}

(* The token behind a node, as it is read for a state.  The lexer is moved *)
(* to the node's end, never backwards; the scanner's state stays what the  *)
(* token in front of the node has made of it.                              *)
ReadBehind(j, r, node, state) ==
  Read(j.text, IF node.end >= r.pos THEN node.end ELSE r.pos, state, r.scans[2])

(* What the parse relies on when it takes a node over, and the code does   *)
(* not look at: that the node's last token ends where it did, that a dirty *)
(* node whose bytes are as before has its old nodes below it, that the     *)
(* next token decides the node's reductions as the old one did, that it is *)
(* the same in the lex mode behind the node as in the one before it, that  *)
(* the scanner is in the state the node's tokens would have left, and that *)
(* the extras in it were put there by reductions and not into a root.      *)
Overlooked(j, r, i) ==
  LET t == j.tree
      under == i .. i + t[i].size - 1
      ends == {k \in under : k + t[k].size = i + t[i].size}
      last == t[Max(under)]
      next == Read(j.text, t[i].end, Target(Top(r), t[i]), t[i].scans[2]).token.symbol
  IN (IF /\ last.start < last.end
         /\ Read(j.text, last.start, last.by, last.scans[1]).token.end > t[i].end
        THEN {"longerToken"} ELSE {})
     \cup (IF t[i].dirty /\ \E k \in under : t[k].was # <<t[k].start, t[k].end>>
             THEN {"notUndone"} ELSE {})
     \cup (IF \E k \in ends : t[k].size > 1
                              /\ Actions(t[k].by, next) # Actions(t[k].by, t[k].ahead)
             THEN {"otherLookahead"} ELSE {})
     \cup (IF ReadBehind(j, r, t[i], Top(r)) # ReadBehind(j, r, t[i], Target(Top(r), t[i]))
             THEN {"otherMode"} ELSE {})
     \cup (IF t[i].scans # r.scans THEN {"otherScanner"} ELSE {})
     \cup (IF \E k \in under : t[k].size > 1 /\ (t[k + 1].extra \/ t[k + t[k].size - 1].extra)
             THEN {"rootExtra"} ELSE {})

(* tryReuseSubtree.  At the end of the source the end token is made up;    *)
(* otherwise it is read for the state the token source was last given,     *)
(* which is the one in front of the node.                                  *)
TakeOver(j, r, i) ==
  LET node == j.tree[i]
      after == IF node.end = Len(j.text)
                 THEN [r EXCEPT !.token = Token("end", node.end, node.end)]
                 ELSE Take(r, ReadBehind(j, r, node, Top(r)))
  IN [Push(after, Target(Top(r), node), [k \in 1 .. node.size |-> j.tree[i + k - 1]])
        EXCEPT !.met = @ \cup Overlooked(j, r, i)]

Shift(r, act) ==
  LET state == IF act.extra THEN Top(r) ELSE act.state
  IN [Push(r, state, Leaf(r.token, state, Top(r), r.scans, act.extra)) EXCEPT !.need = TRUE]

(* Where a reduction's children begin: extras do not count, and those on   *)
(* top of the last child are among them.                                   *)
From(stack, count) ==
  Max({0} \cup {k \in 2 .. Len(stack) :
        Cardinality({l \in k .. Len(stack) : ~ stack[l].node[1].extra}) = count})

(* A reduction keeps the token for the next round.  The parent ends with   *)
(* the last child that is no extra: one behind it is not in its span.      *)
ReduceTop(r, act) ==
  LET base == From(r.stack, act.count) - 1
      from == r.stack[base].state
      state == IF <<from, act.symbol>> \in DOMAIN lang.goto
                 THEN lang.goto[<<from, act.symbol>>] ELSE from
      kids == [k \in 1 .. Len(r.stack) - base |-> r.stack[base + k].node]
      last == Max({k \in DOMAIN kids : ~ kids[k][1].extra})
  IN IF base < 1 THEN [r EXCEPT !.stack = << >>, !.done = TRUE]
     ELSE [r EXCEPT
             !.stack = Append(SubSeq(@, 1, base),
               [state |-> state,
                node |-> Parent(act.symbol, kids, kids[last][1].end, state, Top(r), r.token.symbol)]),
             !.met = @ \cup (IF last < Len(kids) THEN {"strayExtra"} ELSE {})]

Act(r) ==
  LET acts == Actions(Top(r), r.token.symbol)
  IN CASE acts = << >> /\ r.token.symbol = "end" -> [r EXCEPT !.done = TRUE]
       [] acts = << >> /\ r.token.symbol # "end" ->
            [Push(r, Top(r), ErrorLeaf(r.token.start, r.token.end, Top(r), r.scans))
               EXCEPT !.need = TRUE]
       [] acts # << >> ->
            CASE acts[1].type = "shift" -> Shift(r, acts[1])
              [] acts[1].type = "reduce" -> ReduceTop(r, acts[1])
              [] acts[1].type = "accept" -> [r EXCEPT !.done = TRUE]

(* One round of parseInternal: a token, a node of the old tree in its      *)
(* place if one fits, else the table's action.                             *)
TryReuse(j, r) ==
  IF Usable(j, r) # {} THEN TakeOver(j, r, Min(Usable(j, r))) ELSE Act(r)
WithToken(j, r) ==
  IF r.token.symbol = "end" THEN Act(r) ELSE TryReuse(j, Seek(j, r))
Round(j, r) == IF r.done THEN r ELSE WithToken(j, Fetch(j, r))

Run(j) ==
  LET rounds == 4 * Len(j.text) + 4
      after[k \in 0 .. rounds] == IF k = 0 THEN Start ELSE Round(j, after[k - 1])
  IN after[rounds]

(* buildResult.  With an old tree the root takes the old root's symbol.    *)
(* Extras beside the only other node become its first and last children    *)
(* (the stack is in the order of the text), and its span is that of all.   *)
Wrap(symbol, kids, error) ==
  LET t == Parent(symbol, kids, Last(kids)[1].end, 0, 0, None)
  IN [t EXCEPT ![1].error = @ \/ error]

Folded(kids, k) ==
  LET under == FlattenSeq([kids EXCEPT ![k] = Tail(@)])
  IN <<[kids[k][1] EXCEPT !.start = Head(kids)[1].start, !.end = Last(kids)[1].end,
                          !.size = 1 + Len(under)]>> \o under

ErrorTree(s) == ErrorLeaf(0, Len(s), 0, <<0, 0>>)

(* If the symbol is not the old root's, the node with the extras is        *)
(* wrapped together with them: they are in the tree twice.                 *)
Result(j, r) ==
  LET kids == [k \in 1 .. Len(r.stack) - 1 |-> r.stack[k + 1].node]
      last == Last(kids)[1].symbol
      expected == IF j.root = None THEN last ELSE j.root
      others == {k \in DOMAIN kids : ~ kids[k][1].extra}
      root == Max(others)
  IN CASE r.stack = << >> -> ErrorTree(j.text)
       [] Len(r.stack) = 1 ->
            IF \A k \in DOMAIN j.text : j.text[k] \in Blanks THEN << >> ELSE ErrorTree(j.text)
       [] Len(r.stack) = 2 -> IF last = expected THEN kids[1] ELSE Wrap(expected, kids, FALSE)
       [] Len(r.stack) > 2 /\ others # {root} -> Wrap(expected, kids, TRUE)
       [] Len(r.stack) > 2 /\ others = {root} ->
            IF j.root \in {None, kids[root][1].symbol} THEN Folded(kids, root)
              ELSE Wrap(expected, [kids EXCEPT ![root] = Folded(kids, root)], TRUE)

(* The cursor clears the dirty flag of a node it passes whose bytes are as *)
(* before; new and taken over nodes are those of a new tree from here on.  *)
First(t, k) == IF t[k].id = 0 THEN k ELSE Min({i \in DOMAIN t : t[i].id = t[k].id})
Settle(j, r, t) ==
  [k \in DOMAIN t |->
     [t[k] EXCEPT !.id = First(t, k), !.was = <<t[k].start, t[k].end>>,
        !.dirty = @ /\ ~ (t[k].id <= r.seen /\ SameBytes(t[k], j.old, j.text))]]

Doubled(t) == \E k \in DOMAIN t : t[k].id # k

(* What a run and its result relied on, or have put into the tree.         *)
Parsed(j, r) == Settle(j, r, Result(j, r))
Met(j, r) ==
  r.met \cup (IF Result(j, r) # Result([j EXCEPT !.root = None], r) THEN {"otherRoot"} ELSE {})
        \cup (IF Doubled(Parsed(j, r)) THEN {"sharedNode"} ELSE {})

-----------------------------------------------------------------------------
(* Tree.Edit.  An edit replaces the bytes start .. oldEnd by those up to   *)
(* newEnd.                                                                 *)

Moved(value, edit) == Max({0, value + edit.newEnd - edit.oldEnd})

Place(node, edit) ==
  CASE node.end <= edit.start -> "before"
    [] node.end > edit.start /\ node.start >= edit.oldEnd -> "after"
    [] OTHER -> "over"

TouchedKeepsEnd(node, place, edit) ==    \* faulty variant: an overlapped node keeps its end
  CASE place = "before" -> node
    [] place = "after" -> [node EXCEPT !.start = Moved(@, edit), !.end = Moved(@, edit)]
    [] place = "over" -> [node EXCEPT !.dirty = TRUE]

TouchedCleanInside(node, place, edit) == \* faulty variant: a node inside the edit is not marked
  CASE place = "before" -> node
    [] place = "after" -> [node EXCEPT !.start = Moved(@, edit), !.end = Moved(@, edit)]
    [] place = "over" ->
         IF node.end <= edit.oldEnd THEN [node EXCEPT !.end = edit.newEnd]
           ELSE [node EXCEPT !.dirty = TRUE, !.end = Moved(@, edit)]

Touched(node, place, edit) ==
  CASE place = "before" -> node
    [] place = "after" -> [node EXCEPT !.start = Moved(@, edit), !.end = Moved(@, edit)]
    [] place = "over" ->
         [node EXCEPT !.dirty = TRUE,
                      !.end = IF @ <= edit.oldEnd THEN edit.newEnd ELSE Moved(@, edit)]

(* editNode comes to the nodes in pre-order, to one that is in the tree    *)
(* twice twice.  Below a node that it has moved it moves everything, below *)
(* one that it has left alone it visits nothing.                           *)
Visit(v, k, edit) ==
  LET up == Above(v.nodes, k)
      place == IF up = {} \/ v.place[Max(up)] = "over" THEN Place(v.nodes[k], edit)
                 ELSE v.place[Max(up)]
  IN [nodes |-> [i \in DOMAIN v.nodes |->
                   IF v.nodes[i].id = v.nodes[k].id THEN Touched(v.nodes[i], place, edit)
                     ELSE v.nodes[i]],
      place |-> [v.place EXCEPT ![k] = place]]

Edited(t, edit) ==
  LET visited[k \in 0 .. Len(t)] ==
        IF k = 0 THEN [nodes |-> t, place |-> [i \in DOMAIN t |-> "over"]]
          ELSE Visit(visited[k - 1], k, edit)
  IN visited[Len(t)].nodes

-----------------------------------------------------------------------------
Init ==
  /\ name \in DOMAIN Languages
  /\ text \in Texts[name]
  /\ \E j \in {FreshJob(text)} : \E r \in {Run(j)} :
       nodes = Parsed(j, r) /\ met = Met(j, r)
  /\ source = text /\ edits = {} /\ edited = 0

(* The user replaces text[start:oldEnd] and tells the tree.                *)
Edit(start, oldEnd, new) ==
  LET edit == [start |-> start, oldEnd |-> oldEnd, newEnd |-> start + Len(new)]
  IN /\ edited < MaxEdits
     /\ start < oldEnd \/ new # << >>
     /\ text' = Slice(text, 0, start) \o new \o Slice(text, oldEnd, Len(text))
     /\ nodes' = Edited(nodes, edit)
     /\ edits' = edits \cup {start}
     /\ edited' = edited + 1
     /\ met' = met \cup (IF \E i \in DOMAIN nodes : start < nodes[i].start /\ nodes[i].start < oldEnd
                           THEN {"cutStart"} ELSE {})
     /\ UNCHANGED <<name, source>>

(* ParseIncremental with edits recorded, when the parse ends by itself: a  *)
(* reduction that repeats until a limit stops it is GLRParser's subject.   *)
Reparse ==
  /\ edits # {}
  /\ \E j \in {ReuseJob(text, source, nodes, Min(edits))} : \E r \in {Run(j)} :
       /\ r.done
       /\ nodes' = Parsed(j, r)
       /\ met' = met \cup Met(j, r)
  /\ source' = text
  /\ edits' = {}
  /\ UNCHANGED <<name, text, edited>>

Next ==
  \/ \E start, oldEnd \in 0 .. Len(text), new \in Inserts[name] :
       start <= oldEnd /\ Edit(start, oldEnd, new)
  \/ Reparse

Spec == Init /\ [][Next]_vars

-----------------------------------------------------------------------------
(* Properties.                                                             *)

(* Extras outside their parents' spans, or in a tree twice.                *)
ExtrasAstray == met \cap {"strayExtra", "sharedNode"} # {}

(* Types; every node ends within the text as it is after the last edit,    *)
(* unless an edit may have passed by an extra, or moved one twice.         *)
TypeOK ==
  /\ name \in DOMAIN Languages
  /\ \A i \in DOMAIN nodes :
       /\ nodes[i].start \in Nat /\ nodes[i].end \in Nat
       /\ ~ ExtrasAstray => nodes[i].end <= Len(text)
       /\ nodes[i].size \in 1 .. Len(nodes) + 1 - i
       /\ nodes[i].dirty \in BOOLEAN /\ nodes[i].error \in BOOLEAN
  /\ edits \subseteq Nat /\ edited \in 0 .. MaxEdits
  /\ met \subseteq {"cutStart", "longerToken", "notUndone", "otherLookahead", "otherMode",
                    "otherRoot", "otherScanner", "strayExtra", "rootExtra", "sharedNode"}

(* However edits pile up before the next parse, a node that is not dirty   *)
(* spans the text it was parsed from, where that text is now, unless an    *)
(* edit has removed the beginning of a node (editNodeWithDelta moves the   *)
(* end of such a node and not its start, so that a second edit takes it    *)
(* for a node elsewhere), and unless a parent does not span its last       *)
(* extras (an edit that passes it by passes them by), or one node is in    *)
(* the tree twice (and moved twice).                                       *)
CleanNodesKeepTheirText ==
  "cutStart" \notin met /\ ~ ExtrasAstray =>
    \A i \in DOMAIN nodes : ~ nodes[i].dirty =>
       /\ nodes[i].start <= nodes[i].end
       /\ Slice(text, nodes[i].start, nodes[i].end)
            = Slice(source, nodes[i].was[1], nodes[i].was[2])

Shape(t) == [k \in DOMAIN t |-> [symbol |-> t[k].symbol, start |-> t[k].start, end |-> t[k].end,
                                size |-> t[k].size, error |-> t[k].error]]
FreshRunAgrees(r) == r.done => Shape(nodes) = Shape(Result(FreshJob(text), r))
AsIfFresh == edits = {} => FreshRunAgrees(Run(FreshJob(text)))

(* An incremental parse finds the tree that a parse from nothing finds,   *)
(* after any sequence of edits and parses, unless a reuse relied on what   *)
(* did not hold, or the old root's symbol was put on the new one.          *)
ReuseIsSound == met \subseteq {"cutStart"} => AsIfFresh

(* The same without the exceptions.  tree.go:381-384: "The edit adjusts    *)
(* byte offsets and marks overlapping nodes as dirty so the incremental    *)
(* parser knows what to re-parse."                                         *)
ReparsesWhatChanged == AsIfFresh
=============================================================================
