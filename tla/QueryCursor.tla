------------------------------ MODULE QueryCursor ------------------------------
(***************************************************************************)
(* QueryCursor of query.go: a cursor walks the subtree of a node depth     *)
(* first and tries at each node the patterns its kind may start, handing   *)
(* out one match per call of NextMatch and one capture per call of         *)
(* NextCapture.  Both loops keep their place in the cursor, so a call is   *)
(* a run of steps: a call, the steps of the loop, and the return, which is *)
(* the step that finds a match or the end.                                 *)
(***************************************************************************)
EXTENDS Naturals, Sequences

CONSTANTS Cases,               \* pairs of a document, a tree of nodes with kinds
                               \* and kids, and a query
          Candidates(_, _),    \* of a query, at a kind: patterns to try, in order
          Matches(_, _, _, _)  \* of a document, a query, one of its patterns and a
                               \* node: the captures, in a set of at most one

\* The last node of the subtree at n, where nodes are numbered in preorder.
LastBelow(d, n) ==
    CHOOSE m \in DOMAIN d.kids :
        /\ m >= n /\ \A j \in n + 1 .. m : d.parent[j] >= n
        /\ m + 1 \in DOMAIN d.kids => d.parent[m + 1] < n

\* A tree is a sequence of nodes in preorder: a node's first child comes next
\* behind it, and the others each behind the subtree of the one before.
IsTree(d) ==
    /\ d.kids \in Seq(Seq(Nat)) /\ d.kids # << >> /\ LastBelow(d, 1) = Len(d.kids)
    /\ \A n \in DOMAIN d.kids :
         LET kids == d.kids[n]
         IN  /\ LastBelow(d, n) \in n .. Len(d.kids)
             /\ IF kids = << >> THEN LastBelow(d, n) = n
                ELSE /\ kids[1] = n + 1 /\ LastBelow(d, kids[Len(kids)]) = LastBelow(d, n)
                     /\ \A i \in 1 .. Len(kids) : kids[i] \in n + 1 .. LastBelow(d, n)
                     /\ \A i \in 2 .. Len(kids) : kids[i] = LastBelow(d, kids[i - 1]) + 1
ASSUME DocumentsAreTrees == \A c \in Cases : IsTree(c.doc)

\* The index has each pattern once, in the order of the query.
ASSUME CandidatesInOrder ==
    \A c \in Cases : \A n \in DOMAIN c.doc.kids :
        LET tried == Candidates(c.query, c.doc.kind[n])
        IN  /\ tried \in Seq(Nat) /\ \A i \in DOMAIN tried : tried[i] \in DOMAIN c.query.patterns
            /\ \A i, j \in DOMAIN tried : i < j => tried[i] < tried[j]
\* A name is what the query's parser reads behind an @; it may not be empty.
CaptureNames == STRING \ {""}
\* A match captures nodes of the document.
ASSUME CapturesAreNodes ==
    \A c \in Cases : \A n \in DOMAIN c.doc.kids : \A p \in DOMAIN c.query.patterns :
        Matches(c.doc, c.query, p, n) \subseteq Seq([name : CaptureNames, node : DOMAIN c.doc.kids])

None == 0   \* no node

VARIABLES
    doc, query,         \* what the cursor was made for
    worklist,           \* nodes to visit, the next one last
    current,            \* the node being tried, or None
    candidates, index,  \* the patterns tried at it, and how many were
    pending, taken,     \* captures of the last match, how many were handed out
    done,               \* the walk is over
    call,               \* "none", or the call being served: "match", "capture"
    found,              \* history: the matches, with the node they start at
    handed              \* history: captures handed out, <<match, number>>

place == <<worklist, current, candidates, index>>
vars == <<doc, query, place, pending, taken, done, call, found, handed>>

\* Exec: a cursor over the whole of a document.
Init ==
    /\ \E c \in Cases : doc = c.doc /\ query = c.query
    /\ worklist = <<1>> /\ current = None
    /\ candidates = << >> /\ index = 0
    /\ pending = << >> /\ taken = 0
    /\ done = FALSE /\ call = "none"
    /\ found = << >> /\ handed = << >>
-----------------------------------------------------------------------------
\* Faulty variant: what is left of the last match is not dropped.
CallNextMatchKeepsPending ==
    /\ call = "none" /\ ~ done
    /\ call' = "match"
    /\ UNCHANGED <<doc, query, place, pending, taken, done, found, handed>>

\* NextMatch drops what NextCapture has left of the last match.
CallNextMatch ==
    /\ call = "none" /\ ~ done
    /\ call' = "match"
    /\ pending' = << >> /\ taken' = 0
    /\ UNCHANGED <<doc, query, place, done, found, handed>>

\* Faulty variant: one capture too many is read from the buffer.
NextPendingCaptureTooMany ==
    /\ call = "none" /\ ~ done
    /\ taken <= Len(pending)
    /\ taken' = taken + 1
    /\ handed' = Append(handed, <<Len(found), taken + 1>>)
    /\ UNCHANGED <<doc, query, place, pending, done, call, found>>

\* NextCapture returns at once while captures are pending ...
NextPendingCapture ==
    /\ call = "none" /\ ~ done
    /\ taken < Len(pending)
    /\ taken' = taken + 1
    /\ handed' = Append(handed, <<Len(found), taken + 1>>)
    /\ UNCHANGED <<doc, query, place, pending, done, call, found>>

\* ... and else looks for the next match.
CallNextCapture ==
    /\ call = "none" /\ ~ done
    /\ taken = Len(pending)
    /\ call' = "capture"
    /\ pending' = << >> /\ taken' = 0
    /\ UNCHANGED <<doc, query, place, done, found, handed>>

\* A call on a cursor that has ended finds nothing.
CallAfterEnd == call = "none" /\ done /\ UNCHANGED vars

\* Faulty variant: the children are put on the worklist in their own order.
VisitNodeLastChildFirst ==
    /\ call # "none" /\ current = None
    /\ worklist # << >>
    /\ LET n == worklist[Len(worklist)]
       IN  /\ worklist' = SubSeq(worklist, 1, Len(worklist) - 1) \o doc.kids[n]
           /\ current' = n
           /\ candidates' = Candidates(query, doc.kind[n])
           /\ index' = 0
    /\ UNCHANGED <<doc, query, pending, taken, done, call, found, handed>>

\* Take the next node and put its children on the worklist, the first on top.
VisitNode ==
    /\ call # "none" /\ current = None
    /\ worklist # << >>
    /\ LET n    == worklist[Len(worklist)]
           kids == doc.kids[n]
           below == [i \in 1 .. Len(kids) |-> kids[Len(kids) + 1 - i]]
       IN  /\ worklist' = SubSeq(worklist, 1, Len(worklist) - 1) \o below
           /\ current' = n
           /\ candidates' = Candidates(query, doc.kind[n])
           /\ index' = 0
    /\ UNCHANGED <<doc, query, pending, taken, done, call, found, handed>>

\* A match is returned; a match without captures does not end NextCapture.
Return(caps) ==
    \/ /\ call = "match"
       /\ call' = "none"
       /\ UNCHANGED <<pending, taken, handed>>
    \/ /\ call = "capture" /\ caps # << >>
       /\ call' = "none"
       /\ pending' = caps /\ taken' = 1
       /\ handed' = Append(handed, <<Len(found) + 1, 1>>)
    \/ /\ call = "capture" /\ caps = << >>
       /\ UNCHANGED <<call, pending, taken, handed>>

TryCandidate ==
    /\ call # "none" /\ current # None
    /\ index < Len(candidates)
    /\ index' = index + 1
    /\ LET p == candidates[index + 1]
           m == Matches(doc, query, p, current)
       IN  \/ /\ m = {}
              /\ UNCHANGED <<call, pending, taken, found, handed>>
           \/ \E caps \in m :
                /\ found' = Append(found, [pattern |-> p, node |-> current, caps |-> caps])
                /\ Return(caps)
    /\ UNCHANGED <<doc, query, worklist, current, candidates, done>>

\* All patterns were tried at the node.
LeaveNode ==
    /\ call # "none" /\ current # None
    /\ index = Len(candidates)
    /\ current' = None /\ candidates' = << >> /\ index' = 0
    /\ UNCHANGED <<doc, query, worklist, pending, taken, done, call, found, handed>>

EndOfWalk ==
    /\ call # "none" /\ current = None
    /\ worklist = << >>
    /\ done' = TRUE /\ call' = "none"
    /\ UNCHANGED <<doc, query, place, pending, taken, found, handed>>

Call == CallNextMatch \/ NextPendingCapture \/ CallNextCapture \/ CallAfterEnd
Work == VisitNode \/ TryCandidate \/ LeaveNode \/ EndOfWalk
Next == Call \/ Work

Spec == Init /\ [][Next]_vars
-----------------------------------------------------------------------------
\* The cursor is at a node of the document and has handed out no more than
\* the last match has.
TypeOK ==
    LET N == DOMAIN doc.kids
    IN  /\ \A i \in DOMAIN worklist : worklist[i] \in N
        /\ current \in N \cup {None}
        /\ index \in 0 .. Len(candidates)
        /\ \A i \in DOMAIN candidates : candidates[i] \in DOMAIN query.patterns
        /\ taken \in 0 .. Len(pending)
        /\ done \in BOOLEAN /\ call \in {"none", "match", "capture"}
        /\ \A i \in DOMAIN found : /\ found[i].node \in N
                                   /\ \A j \in DOMAIN found[i].caps :
                                         found[i].caps[j].node \in N

\* Matches come in document order and, at one node, in the order of the
\* patterns: none comes twice (query.go:388-395).
MatchesComeInOrder ==
    \A i \in 2 .. Len(found) :
        LET m == found[i - 1]
            l == found[i]
        IN  m.node < l.node \/ (m.node = l.node /\ m.pattern < l.pattern)

\* Captures come in the order of the matches, and within a match one by one
\* from the first; those of a match that NextMatch returned, or of which it
\* dropped the rest, do not come later.
CapturesComeInOrder ==
    \A k \in DOMAIN handed :
        /\ handed[k][2] \in 1 .. Len(found[handed[k][1]].caps)
        /\ handed[k][2] = 1 => k = 1 \/ handed[k - 1][1] < handed[k][1]
        /\ handed[k][2] > 1 =>
              k > 1 /\ handed[k - 1] = <<handed[k][1], handed[k][2] - 1>>

\* When the walk has ended, every candidate was tried at every node: whatever
\* matches was found.
EveryNodeIsTried ==
    done => \A n \in DOMAIN doc.kids :
                LET tried == Candidates(query, doc.kind[n])
                IN  \A i \in DOMAIN tried :
                       Matches(doc, query, tried[i], n) # {} =>
                           \E k \in DOMAIN found : found[k].node = n /\ found[k].pattern = tried[i]
=============================================================================
