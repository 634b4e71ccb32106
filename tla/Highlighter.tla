------------------------------ MODULE Highlighter ------------------------------
(***************************************************************************)
(* highlight.go: Highlight runs a query to its end over a parsed document, *)
(* takes the range of bytes of every capture that is not empty, and cuts   *)
(* the ranges so that no two overlap.                                      *)
(***************************************************************************)
EXTENDS QueryCursor, FiniteSets, SequencesExt

CONSTANT MaxRanges   \* bound: no more ranges than this are sorted

\* Spans are any bytes.  Nodes need not nest: an extra at the end of a node is
\* its child and not in its span (parser.go:932-987), an edit can leave a node
\* that starts behind its end (tree.go:437-440), and tokens may overlap.
ASSUME SpansAreBytes ==
    \A c \in Cases :
        c.doc.start \in [DOMAIN c.doc.kids -> Nat] /\ c.doc.stop \in [DOMAIN c.doc.kids -> Nat]

VARIABLE spans   \* what Highlight returns, << >> until then

highlightVars == <<vars, spans>>

NoCapture == ""

\* The ranges in the order of the matches and of their captures.
RangeOf(c) ==
    IF doc.start[c.node] = doc.stop[c.node] THEN << >>
    ELSE <<[start |-> doc.start[c.node], stop |-> doc.stop[c.node], capture |-> c.name]>>
RangesOf(match) == FlattenSeq([j \in DOMAIN match.caps |-> RangeOf(match.caps[j])])
CapturedRanges  == FlattenSeq([i \in DOMAIN found |-> RangesOf(found[i])])

\* sort.Slice by start, and the wider one first; it is not stable, so ranges
\* of one start and width may come in any order.  The width is a uint32: that
\* of a range that ends before its start wraps to a wide one.
Turned(r) == r.stop < r.start
Wider(r, s) == IF Turned(r) = Turned(s) THEN r.stop > s.stop ELSE Turned(r)
Precedes(r, s) == r.start < s.start \/ (r.start = s.start /\ Wider(r, s))
SortedBy(ranges, order) ==
    \A i, j \in DOMAIN order : i < j => ~ Precedes(ranges[order[j]], ranges[order[i]])
SortedRanges(ranges) ==
    LET D == DOMAIN ranges
        orders == {o \in [D -> D] : SortedBy(ranges, o) /\ \A i \in D : \E j \in D : o[j] = i}
    IN  {[i \in D |-> ranges[order[i]]] : order \in orders}

\* At one position ends come before starts, the wider range starts first and
\* the narrower one ends first.
Events(ranges) ==
    {[pos |-> ranges[i].start, isStart |-> TRUE, idx |-> i] : i \in DOMAIN ranges}
    \cup {[pos |-> ranges[i].stop, isStart |-> FALSE, idx |-> i] : i \in DOMAIN ranges}
\* Faulty variant: at one position the narrower range starts first.
EventBeforeNarrowFirst(e, f) ==
    \/ e.pos < f.pos
    \/ e.pos = f.pos /\ ~ e.isStart /\ f.isStart
    \/ e.pos = f.pos /\ e.isStart = f.isStart /\ e.idx > f.idx
EventBefore(e, f) ==
    \/ e.pos < f.pos
    \/ e.pos = f.pos /\ ~ e.isStart /\ f.isStart
    \/ e.pos = f.pos /\ e.isStart /\ f.isStart /\ e.idx < f.idx
    \/ e.pos = f.pos /\ ~ e.isStart /\ ~ f.isStart /\ e.idx > f.idx
SortedEvents(ranges) ==
    LET events == Events(ranges)
        Before(e) == {f \in events : EventBefore(f, e)}
    IN  [k \in 1 .. Cardinality(events) |->
            CHOOSE e \in events : Cardinality(Before(e)) = k - 1]

\* The stack without the entries on top that are over.
PopInactive(stack, active) ==
    LET live == {i \in DOMAIN stack : stack[i] \in active}
    IN  IF live = {} THEN << >>
        ELSE SubSeq(stack, 1, CHOOSE i \in live : \A j \in live : j <= i)

\* flushSegment: the capture shown since the last event, up to this one.
FlushSegment(sweep, pos) ==
    IF pos > sweep.lastPos /\ sweep.shown # NoCapture
    THEN Append(sweep.result, [start |-> sweep.lastPos, stop |-> pos,
                               capture |-> sweep.shown])
    ELSE sweep.result

Sweep(ranges, sweep, ev) ==
    LET active == IF ev.isStart THEN sweep.active \cup {ev.idx} ELSE sweep.active \ {ev.idx}
        stack  == IF ev.isStart THEN Append(sweep.stack, ev.idx)
                  ELSE PopInactive(sweep.stack, active)
        top    == PopInactive(stack, active)
    IN  [active |-> active, stack |-> stack, lastPos |-> ev.pos,
         shown |-> IF top = << >> THEN NoCapture ELSE ranges[Last(top)].capture,
         result |-> FlushSegment(sweep, ev.pos)]

ResolveOverlaps(ranges) ==
    LET events == SortedEvents(ranges)
        after[k \in 0 .. Len(events)] ==
            IF k = 0 THEN [active |-> {}, stack |-> << >>, lastPos |-> 0,
                           shown |-> NoCapture, result |-> << >>]
            ELSE Sweep(ranges, after[k - 1], events[k])
    IN  after[Len(events)].result
-----------------------------------------------------------------------------
HighlightInit == Init /\ spans = << >>

Highlight ==
    /\ done /\ spans = << >> /\ Len(CapturedRanges) <= MaxRanges
    /\ \E ranges \in SortedRanges(CapturedRanges) :
          /\ ranges # << >>
          /\ spans' = ResolveOverlaps(ranges)
    /\ UNCHANGED vars

HighlightNext == (Next /\ UNCHANGED spans) \/ Highlight
HighlightSpec == HighlightInit /\ [][HighlightNext]_highlightVars
-----------------------------------------------------------------------------
Covers(r, b) == r.start <= b /\ b < r.stop

Nest(r, s) == \/ s.start <= r.start /\ r.stop <= s.stop
              \/ r.start <= s.start /\ s.stop <= r.stop

\* At every byte one innermost capture is shown (highlight.go:150-152), none
\* where there is no range: one no wider than any it nests with there, and
\* started after any it overlaps without nesting (the "most recently started
\* (innermost) range", 163).  Excepted: a captured node that starts behind
\* its end, whose range would start when it is over.
InnermostIsShown ==
    spans # << >> /\ (\A r \in ToSet(CapturedRanges) : ~ Turned(r)) =>
        \A b \in UNION {0 .. doc.stop[n] : n \in DOMAIN doc.stop} :
            LET ranges == {r \in ToSet(CapturedRanges) : Covers(r, b)}
                inner  == {r \in ranges : \A s \in ranges :
                              IF Nest(r, s) THEN r.stop - r.start <= s.stop - s.start
                              ELSE s.start < r.start}
                here   == {i \in DOMAIN spans : Covers(spans[i], b)}
            IN  IF ranges = {} THEN here = {}
                ELSE \E i \in here : /\ here = {i}
                                     /\ spans[i].capture \in {r.capture : r \in inner}
=============================================================================
