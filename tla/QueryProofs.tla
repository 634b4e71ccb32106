------------------------------- MODULE QueryProofs -------------------------------
(***************************************************************************)
(* Proofs about QueryCursor and Highlighter.                               *)
(***************************************************************************)
EXTENDS Highlighter, NumberLemmas, SequenceTheorems

-----------------------------------------------------------------------------
(* The cursor, for every document that is a tree and every query: the walk *)
(* goes through the document in preorder and leaves out no node and no     *)
(* candidate, so matches come in order, and captures in theirs.            *)

Capture == [name : CaptureNames, node : DOMAIN doc.kids]
Match   == [pattern : Nat, node : DOMAIN doc.kids, caps : Seq(Capture)]
ToTry(n) == Candidates(query, doc.kind[n])

\* The first node that was not visited, or the number behind the last node.
Upcoming == IF worklist = << >> THEN Len(doc.kids) + 1 ELSE worklist[Len(worklist)]

\* The subtrees on the worklist, from the top down, are all of the document
\* from the upcoming node on.
Tiles ==
    /\ worklist \in Seq(DOMAIN doc.kids)
    /\ worklist # << >> => LastBelow(doc, worklist[1]) = Len(doc.kids)
    /\ \A i \in 2 .. Len(worklist) : worklist[i - 1] = LastBelow(doc, worklist[i]) + 1

AtNode ==
    IF current = None THEN candidates = << >> /\ index = 0
    ELSE /\ current \in DOMAIN doc.kids /\ Upcoming = current + 1
         /\ candidates = ToTry(current) /\ index \in 0 .. Len(candidates)

\* The matches are those of the nodes visited and the candidates tried ...
FoundBelow ==
    /\ found \in Seq(Match)
    /\ \A k \in DOMAIN found :
         /\ found[k].node < Upcoming
         /\ found[k].node = current =>
              \E j \in 1 .. index : found[k].pattern = candidates[j]

\* ... and all of these.
FoundAll ==
    \A n \in DOMAIN doc.kids : \A i \in DOMAIN ToTry(n) :
        /\ n < Upcoming /\ (n = current => i <= index)
        /\ Matches(doc, query, ToTry(n)[i], n) # {}
        => \E k \in DOMAIN found : found[k].node = n /\ found[k].pattern = ToTry(n)[i]

\* The buffer has the captures of the last match, of which the last was
\* handed out last.
Buffer ==
    /\ pending \in Seq(Capture) /\ taken \in 0 .. Len(pending)
    /\ handed \in Seq(Nat \X Nat) /\ \A k \in DOMAIN handed : handed[k][1] \in 1 .. Len(found)
    /\ call # "none" => pending = << >>
    /\ pending # << >> =>
         /\ found # << >> /\ pending = found[Len(found)].caps /\ taken > 0
         /\ handed # << >> /\ handed[Len(handed)] = <<Len(found), taken>>

Calls ==
    /\ done \in BOOLEAN /\ call \in {"none", "match", "capture"}
    /\ done => call = "none" /\ worklist = << >> /\ current = None

AtCase == \E c \in Cases : doc = c.doc /\ query = c.query

IInv ==
    /\ AtCase /\ Tiles /\ AtNode /\ Calls
    /\ FoundBelow /\ FoundAll /\ MatchesComeInOrder
    /\ Buffer /\ CapturesComeInOrder
-----------------------------------------------------------------------------
\* Facts about the document and the query.

LEMMA TreeFacts ==
    ASSUME AtCase
    PROVE  /\ doc.kids \in Seq(Seq(Nat)) /\ Len(doc.kids) \in Nat \ {0}
           /\ DOMAIN doc.kids = 1 .. Len(doc.kids) /\ 1 \in DOMAIN doc.kids
           /\ LastBelow(doc, 1) = Len(doc.kids)
<1>1. IsTree(doc)
  BY DocumentsAreTrees DEF AtCase
<1>2. doc.kids \in Seq(Seq(Nat)) /\ doc.kids # << >> /\ LastBelow(doc, 1) = Len(doc.kids)
  BY <1>1 DEF IsTree
<1> QED BY <1>2

LEMMA KidsFacts ==
    ASSUME AtCase, NEW n \in DOMAIN doc.kids, NEW kids, kids = doc.kids[n]
    PROVE  /\ kids \in Seq(DOMAIN doc.kids) /\ n \in Nat
           /\ LastBelow(doc, n) \in n .. Len(doc.kids)
           /\ kids = << >> => LastBelow(doc, n) = n
           /\ kids # << >> =>
                /\ kids[1] = n + 1 /\ LastBelow(doc, kids[Len(kids)]) = LastBelow(doc, n)
                /\ \A i \in 2 .. Len(kids) : kids[i] = LastBelow(doc, kids[i - 1]) + 1
<1>1. IsTree(doc)
  BY DocumentsAreTrees DEF AtCase
<1>2. /\ LastBelow(doc, n) \in n .. Len(doc.kids)
      /\ IF kids = << >> THEN LastBelow(doc, n) = n
         ELSE /\ kids[1] = n + 1 /\ LastBelow(doc, kids[Len(kids)]) = LastBelow(doc, n)
              /\ \A i \in 1 .. Len(kids) : kids[i] \in n + 1 .. LastBelow(doc, n)
              /\ \A i \in 2 .. Len(kids) : kids[i] = LastBelow(doc, kids[i - 1]) + 1
  BY <1>1 DEF IsTree
<1>3. /\ doc.kids \in Seq(Seq(Nat)) /\ DOMAIN doc.kids = 1 .. Len(doc.kids) /\ Len(doc.kids) \in Nat
  BY TreeFacts
<1>4. kids \in Seq(Nat) /\ n \in Nat
  BY <1>3
<1>5. \A i \in 1 .. Len(kids) : kids[i] \in DOMAIN doc.kids
  BY <1>2, <1>3, <1>4
<1>6. kids \in Seq(DOMAIN doc.kids)
  BY <1>4, <1>5
<1> QED BY <1>2, <1>4, <1>6

LEMMA QueryFacts ==
    ASSUME AtCase, NEW n \in DOMAIN doc.kids
    PROVE  /\ ToTry(n) \in Seq(Nat)
           /\ \A i \in DOMAIN ToTry(n) : ToTry(n)[i] \in DOMAIN query.patterns
           /\ \A i, j \in DOMAIN ToTry(n) : i < j => ToTry(n)[i] < ToTry(n)[j]
           /\ \A i \in DOMAIN ToTry(n) : Matches(doc, query, ToTry(n)[i], n) \subseteq Seq(Capture)
<1>1. PICK c \in Cases : doc = c.doc /\ query = c.query
  BY DEF AtCase
<1>2. /\ ToTry(n) \in Seq(Nat)
      /\ \A i \in DOMAIN ToTry(n) : ToTry(n)[i] \in DOMAIN query.patterns
      /\ \A i, j \in DOMAIN ToTry(n) : i < j => ToTry(n)[i] < ToTry(n)[j]
  BY <1>1, CandidatesInOrder DEF ToTry
<1>3. \A p \in DOMAIN query.patterns : Matches(doc, query, p, n) \subseteq Seq(Capture)
  BY <1>1, CapturesAreNodes, Zenon DEF Capture
<1> QED BY <1>2, <1>3

LEMMA UpcomingType ==
    ASSUME AtCase, Tiles PROVE Upcoming \in 1 .. Len(doc.kids) + 1
<1>1. Len(doc.kids) \in Nat /\ DOMAIN doc.kids = 1 .. Len(doc.kids)
  BY TreeFacts
<1>2. worklist # << >> => worklist[Len(worklist)] \in DOMAIN doc.kids
  BY DEF Tiles
<1> QED BY <1>1, <1>2 DEF Upcoming

-----------------------------------------------------------------------------
\* The walk.

\* With its children in its place, the node's subtree is still tiled, and
\* what comes next is the next number.
LEMMA VisitTiles ==
    ASSUME AtCase, Tiles, worklist # << >>, VisitNode
    PROVE  /\ Tiles' /\ current' = Upcoming /\ Upcoming' = Upcoming + 1
           /\ current' \in DOMAIN doc.kids
<1> DEFINE w     == worklist
           len   == Len(w)
           n     == w[len]
           kids  == doc.kids[n]
           m     == Len(kids)
           below == [i \in 1 .. m |-> kids[m + 1 - i]]
           rest  == SubSeq(w, 1, len - 1)
           new   == rest \o below
           size  == Len(doc.kids)
<1>1. /\ w \in Seq(DOMAIN doc.kids) /\ len \in Nat \ {0} /\ DOMAIN w = 1 .. len
      /\ n \in DOMAIN doc.kids
  BY DEF Tiles
<1>2. size \in Nat /\ DOMAIN doc.kids = 1 .. size
  BY TreeFacts
<1>3. /\ worklist' = new /\ current' = n /\ doc' = doc
      /\ Upcoming = n
  BY DEF VisitNode, Upcoming
<1>4. /\ kids \in Seq(DOMAIN doc.kids) /\ n \in Nat
      /\ LastBelow(doc, n) \in n .. size
      /\ kids = << >> => LastBelow(doc, n) = n
      /\ kids # << >> =>
           /\ kids[1] = n + 1 /\ LastBelow(doc, kids[m]) = LastBelow(doc, n)
           /\ \A i \in 2 .. m : kids[i] = LastBelow(doc, kids[i - 1]) + 1
  <2>1. kids = doc.kids[n]
    OBVIOUS
  <2> HIDE DEF n, kids
  <2> QED BY <1>1, <2>1, KidsFacts
<1>5. m \in Nat /\ DOMAIN kids = 1 .. m /\ \A i \in 1 .. m : kids[i] \in DOMAIN doc.kids
  <2> HIDE DEF kids
  <2> QED BY <1>4
<1>6. below \in Seq(DOMAIN doc.kids) /\ Len(below) = m /\ \A i \in 1 .. m : below[i] = kids[m + 1 - i]
  <2>1. \A i \in 1 .. m : m + 1 - i \in 1 .. m
    BY <1>5
  <2>2. below \in [1 .. m -> DOMAIN doc.kids]
    BY <1>5, <2>1
  <2> HIDE DEF kids
  <2> QED BY <1>5, <2>2
<1>7. rest \in Seq(DOMAIN doc.kids) /\ Len(rest) = len - 1 /\ \A i \in 1 .. len - 1 : rest[i] = w[i]
  <2>1. \A i \in 1 .. len - 1 : w[i] \in DOMAIN doc.kids
    BY <1>1
  <2> DEFINE last == len - 1
  <2>2. last \in Nat /\ rest = SubSeq(w, 1, last)
    BY <1>1
  <2>3. \A i \in 1 .. last : w[i] \in DOMAIN doc.kids
    BY <2>1
  <2> HIDE DEF w, len, last, rest
  <2>4. last \in Int /\ 1 \in Int
    BY <2>2
  <2>5. /\ SubSeq(w, 1, last) \in Seq(DOMAIN doc.kids)
        /\ Len(SubSeq(w, 1, last)) = IF 1 <= last THEN last - 1 + 1 ELSE 0
        /\ \A i \in 1 .. last - 1 + 1 : SubSeq(w, 1, last)[i] = w[1 + i - 1]
    <3> DEFINE N == DOMAIN doc.kids
    <3>1. \A i \in 1 .. last : w[i] \in N
      BY <2>3
    <3> HIDE DEF N
    <3>2. /\ SubSeq(w, 1, last) \in Seq(N)
          /\ Len(SubSeq(w, 1, last)) = IF 1 <= last THEN last - 1 + 1 ELSE 0
          /\ \A i \in 1 .. last - 1 + 1 : SubSeq(w, 1, last)[i] = w[1 + i - 1]
      BY <2>4, <3>1, SubSeqProperties
    <3> QED BY <3>2 DEF N
  <2>6. /\ rest \in Seq(DOMAIN doc.kids)
        /\ Len(rest) = IF 1 <= last THEN last - 1 + 1 ELSE 0
        /\ \A i \in 1 .. last - 1 + 1 : rest[i] = w[1 + i - 1]
    BY <2>2, <2>5, Zenon
  <2>7. Len(rest) = last /\ \A i \in 1 .. last : rest[i] = w[i]
    BY <2>2, <2>6
  <2> QED BY <2>6, <2>7 DEF last
<1> HIDE DEF rest, below, w, len, n, size
<1>8. /\ new \in Seq(DOMAIN doc.kids) /\ Len(new) = len - 1 + m
      /\ \A i \in 1 .. len - 1 : new[i] = w[i]
      /\ \A i \in 1 .. m : new[len - 1 + i] = kids[m + 1 - i]
  <2>1. new \in Seq(DOMAIN doc.kids) /\ Len(new) = len - 1 + m
    <3> HIDE DEF kids, m
    <3> QED BY <1>1, <1>5, <1>6, <1>7, ConcatProperties
  <2>2. \A i \in 1 .. len - 1 + m : new[i] = IF i <= len - 1 THEN rest[i] ELSE below[i - (len - 1)]
    <3> HIDE DEF kids, m
    <3> QED BY <1>1, <1>5, <1>6, <1>7, ConcatProperties
  <2>3. \A i \in 1 .. len - 1 : new[i] = w[i]
    BY <1>1, <1>5, <1>7, <2>2
  <2>4. \A i \in 1 .. m : new[len - 1 + i] = below[i]
    <3> TAKE i \in 1 .. m
    <3> DEFINE k == len - 1 + i
    <3>1. k \in 1 .. len - 1 + m /\ ~ (k <= len - 1) /\ k - (len - 1) = i
      BY <1>1, <1>5
    <3> HIDE DEF k, new
    <3>2. new[k] = below[k - (len - 1)]
      BY <2>2, <3>1
    <3> QED BY <3>1, <3>2 DEF k
  <2> QED BY <1>6, <2>1, <2>3, <2>4
<1>9. /\ LastBelow(doc, w[1]) = size
      /\ \A i \in 2 .. len : w[i - 1] = LastBelow(doc, w[i]) + 1
  BY DEF Tiles, w, len, size
<1> HIDE DEF new, kids, m
<1>n. w[len] = n
  BY DEF n
<1>10. CASE kids = << >>
  <2>1. m = 0 /\ LastBelow(doc, n) = n
    BY <1>4, <1>10 DEF m
  <2>2. Len(new) = len - 1 /\ \A i \in 1 .. Len(new) : new[i] = w[i]
    BY <1>1, <1>8, <2>1
  <2>3. new # << >> => LastBelow(doc, new[1]) = size
    BY <1>1, <1>8, <1>9, <2>2
  <2>4. \A i \in 2 .. Len(new) : new[i - 1] = LastBelow(doc, new[i]) + 1
    BY <1>1, <1>9, <2>2
  <2>5. (IF new = << >> THEN size + 1 ELSE new[Len(new)]) = n + 1
    <3>1. CASE len = 1
      <4>1. new = << >>
        BY <1>8, <2>2, <3>1
      <4> QED BY <1>9, <1>n, <2>1, <3>1, <4>1
    <3>2. CASE len > 1
      <4>1. new # << >> /\ new[Len(new)] = w[len - 1]
        BY <1>1, <1>8, <2>2, <3>2
      <4>2. w[len - 1] = LastBelow(doc, w[len]) + 1
        BY <1>1, <1>9, <3>2
      <4> QED BY <1>n, <2>1, <4>1, <4>2
    <3> QED BY <1>1, <3>1, <3>2
  <2> QED BY <1>1, <1>3, <1>8, <2>3, <2>4, <2>5 DEF Tiles, Upcoming, size
<1>11. CASE kids # << >>
  <2>1. m >= 1
    BY <1>4, <1>5, <1>11 DEF m
  <2>2. new # << >> /\ Len(new) \in Nat
    BY <1>1, <1>5, <1>8, <2>1
  <2>3. LastBelow(doc, new[1]) = size
    <3>1. CASE len = 1
      <4>1. new[len - 1 + 1] = kids[m + 1 - 1]
        BY <1>8, <2>1, <1>5
      <4>2. new[1] = kids[m]
        BY <4>1, <3>1, <1>5
      <4> QED BY <1>4, <1>9, <1>n, <1>11, <3>1, <4>2
    <3>2. CASE len > 1
      BY <1>1, <1>8, <1>9, <3>2
    <3> QED BY <1>1, <3>1, <3>2
  <2>4. ASSUME NEW i \in 2 .. Len(new) PROVE new[i - 1] = LastBelow(doc, new[i]) + 1
    <3>1. CASE i < len
      BY <1>1, <1>8, <1>9, <3>1
    <3>2. CASE i = len
      <4>1. new[i - 1] = w[len - 1] /\ w[len - 1] = LastBelow(doc, n) + 1
        BY <1>1, <1>8, <1>9, <1>n, <3>2
      <4>2. new[len - 1 + 1] = kids[m + 1 - 1]
        BY <1>5, <1>8, <2>1
      <4>3. new[i] = kids[m]
        BY <1>1, <1>5, <3>2, <4>2
      <4> QED BY <1>4, <1>11, <4>1, <4>3
    <3>3. CASE i > len
      <4>0. i \in Nat /\ i <= len - 1 + m
        BY <1>8
      <4> DEFINE j == i - len
      <4>1. j \in 1 .. m /\ j + 1 \in 1 .. m /\ m + 1 - j \in 2 .. m /\ len - 1 + j = i - 1 /\ len - 1 + (j + 1) = i
            /\ m + 1 - (j + 1) = (m + 1 - j) - 1
        BY <1>1, <1>5, <3>3, <4>0
      <4> HIDE DEF j
      <4>2. new[i - 1] = kids[m + 1 - j] /\ new[i] = kids[(m + 1 - j) - 1]
        BY <1>8, <4>1
      <4>3. kids[m + 1 - j] = LastBelow(doc, kids[(m + 1 - j) - 1]) + 1
        BY <1>4, <1>11, <4>1
      <4> QED BY <4>2, <4>3
    <3> QED BY <1>1, <3>1, <3>2, <3>3, <2>2
  <2>5. new[Len(new)] = n + 1
    <3>1. new[len - 1 + m] = kids[m + 1 - m]
      BY <1>5, <1>8, <2>1
    <3>2. m + 1 - m = 1
      BY <1>5
    <3> QED BY <1>4, <1>8, <1>11, <3>1, <3>2
  <2> QED BY <1>1, <1>3, <1>8, <2>2, <2>3, <2>4, <2>5 DEF Tiles, Upcoming, size
<1> QED BY <1>10, <1>11

LEMMA InitKeeps == Init => IInv
<1> SUFFICES ASSUME Init PROVE IInv
  OBVIOUS
<1>1. AtCase
  BY DEF Init, AtCase
<1>2. /\ worklist = <<1>> /\ current = None /\ candidates = << >> /\ index = 0
      /\ pending = << >> /\ taken = 0 /\ done = FALSE /\ call = "none"
      /\ found = << >> /\ handed = << >>
  BY DEF Init
<1>3. Tiles
  <2>1. 1 \in DOMAIN doc.kids /\ LastBelow(doc, 1) = Len(doc.kids)
    BY <1>1, TreeFacts
  <2>2. worklist \in Seq(DOMAIN doc.kids) /\ Len(worklist) = 1 /\ worklist[1] = 1
    <3>1. \A N : 1 \in N => <<1>> \in Seq(N)
      OBVIOUS
    <3>2. <<1>> \in Seq(DOMAIN doc.kids)
      BY <2>1, <3>1
    <3> QED BY <1>2, <3>2
  <2> QED BY <2>1, <2>2 DEF Tiles
<1>4. AtNode /\ Calls
  BY <1>2 DEF AtNode, Calls
<1>5. FoundBelow /\ MatchesComeInOrder
  BY <1>2 DEF FoundBelow, MatchesComeInOrder
<1>6. FoundAll
  <2>1. Upcoming = 1
    BY <1>2 DEF Upcoming
  <2>2. \A n \in DOMAIN doc.kids : n \in Nat /\ ~ (n < 1)
    BY <1>1, TreeFacts
  <2> QED BY <2>1, <2>2 DEF FoundAll
<1>7. Buffer /\ CapturesComeInOrder
  BY <1>2 DEF Buffer, CapturesComeInOrder
<1> QED BY <1>1, <1>3, <1>4, <1>5, <1>6, <1>7 DEF IInv

LEMMA VisitKeeps ==
    ASSUME IInv, VisitNode PROVE IInv'
<1>1. AtCase /\ Tiles /\ worklist # << >> /\ current = None /\ call # "none"
  BY DEF IInv, VisitNode
<1>2. /\ doc' = doc /\ query' = query /\ UNCHANGED <<pending, taken, done, call, found, handed>>
      /\ index' = 0
  BY DEF VisitNode
<1>3. /\ Tiles' /\ current' = Upcoming /\ Upcoming' = Upcoming + 1
      /\ current' \in DOMAIN doc.kids /\ Upcoming \in Nat \ {0}
  BY <1>1, VisitTiles, UpcomingType
<1>4. AtCase'
  BY <1>1, <1>2 DEF AtCase
<1>5. candidates' = ToTry(current)' /\ ToTry(current)' = ToTry(current')
  BY <1>2 DEF VisitNode, ToTry
<1>6. AtNode'
  <2>1. Len(candidates') \in Nat
    BY <1>1, <1>3, <1>5, QueryFacts
  <2> QED BY <1>2, <1>3, <1>5, <2>1 DEF AtNode, None
<1>7. Calls'
  BY <1>1, <1>2 DEF IInv, Calls
<1>8. FoundBelow'
  <2>1. found \in Seq(Match) /\ \A k \in DOMAIN found : found[k].node < Upcoming
    BY DEF IInv, FoundBelow
  <2>2. Match' = Match
    BY <1>2 DEF Match, Capture
  <2>3. \A k \in DOMAIN found : found[k].node \in Nat
    <3>1. \A k \in DOMAIN found : found[k] \in Match
      BY <2>1
    <3> QED BY <1>1, <3>1, TreeFacts DEF Match
  <2> QED BY <1>2, <1>3, <2>1, <2>2, <2>3 DEF FoundBelow
<1>9. FoundAll'
  <2>1. \A n \in DOMAIN doc.kids : \A i \in DOMAIN ToTry(n) :
          n < Upcoming /\ Matches(doc, query, ToTry(n)[i], n) # {}
          => \E k \in DOMAIN found : found[k].node = n /\ found[k].pattern = ToTry(n)[i]
    <3>1. \A n \in DOMAIN doc.kids : n # None
      BY <1>1, TreeFacts DEF None
    <3> QED BY <1>1, <3>1 DEF IInv, FoundAll
  <2>2. \A n \in DOMAIN doc.kids : ToTry(n)' = ToTry(n)
    BY <1>2 DEF ToTry
  <2> SUFFICES ASSUME NEW n \in DOMAIN doc.kids, NEW i \in DOMAIN ToTry(n),
                      n < Upcoming', n = current' => i <= index',
                      Matches(doc, query, ToTry(n)[i], n) # {}
               PROVE  \E k \in DOMAIN found : found[k].node = n /\ found[k].pattern = ToTry(n)[i]
    BY <1>2, <2>2 DEF FoundAll
  <2>3. n \in Nat /\ i \in Nat \ {0}
    BY <1>1, TreeFacts, QueryFacts
  <2>4. n < Upcoming
    BY <1>2, <1>3, <2>3
  <2> QED BY <2>1, <2>4
<1>10. MatchesComeInOrder' /\ CapturesComeInOrder'
  BY <1>2 DEF IInv, MatchesComeInOrder, CapturesComeInOrder
<1>11. Buffer'
  BY <1>2 DEF IInv, Buffer, Capture
<1> QED BY <1>3, <1>4, <1>6, <1>7, <1>8, <1>9, <1>10, <1>11 DEF IInv

LEMMA LeaveKeeps ==
    ASSUME IInv, LeaveNode PROVE IInv'
<1>1. AtCase /\ Tiles /\ AtNode /\ current # None /\ index = Len(candidates)
  BY DEF IInv, LeaveNode
<1>2. /\ UNCHANGED <<doc, query, worklist, pending, taken, done, call, found, handed>>
      /\ current' = None /\ candidates' = << >> /\ index' = 0
  BY DEF LeaveNode
<1>3. AtCase' /\ Tiles' /\ Upcoming' = Upcoming /\ AtNode'
  BY <1>1, <1>2 DEF AtCase, Tiles, Upcoming, AtNode
<1>4. Calls'
  BY <1>2 DEF IInv, Calls, LeaveNode
<1>5. \A n \in DOMAIN doc.kids : n # None
  BY <1>1, TreeFacts DEF None
<1>6. FoundBelow'
  <2>1. found \in Seq(Match) /\ \A k \in DOMAIN found : found[k].node < Upcoming
    BY DEF IInv, FoundBelow
  <2>2. Match' = Match
    BY <1>2 DEF Match, Capture
  <2>3. \A k \in DOMAIN found : found[k].node # None
    <3>1. \A k \in DOMAIN found : found[k] \in Match
      BY <2>1
    <3> QED BY <1>5, <3>1 DEF Match
  <2> QED BY <1>2, <1>3, <2>1, <2>2, <2>3 DEF FoundBelow
<1>7. FoundAll'
  <2>1. \A n \in DOMAIN doc.kids : ToTry(n)' = ToTry(n)
    BY <1>2 DEF ToTry
  <2> SUFFICES ASSUME NEW n \in DOMAIN doc.kids, NEW i \in DOMAIN ToTry(n),
                      n < Upcoming, Matches(doc, query, ToTry(n)[i], n) # {}
               PROVE  \E k \in DOMAIN found : found[k].node = n /\ found[k].pattern = ToTry(n)[i]
    BY <1>2, <1>3, <2>1 DEF FoundAll
  <2>2. n = current => i <= index
    <3> SUFFICES ASSUME n = current PROVE i <= index
      OBVIOUS
    <3>1. candidates = ToTry(n) /\ ToTry(n) \in Seq(Nat)
      BY <1>1, QueryFacts DEF AtNode
    <3> QED BY <1>1, <3>1
  <2> QED BY <2>2 DEF IInv, FoundAll
<1>8. MatchesComeInOrder' /\ CapturesComeInOrder' /\ Buffer'
  BY <1>2 DEF IInv, MatchesComeInOrder, CapturesComeInOrder, Buffer, Capture
<1> QED BY <1>3, <1>4, <1>6, <1>7, <1>8 DEF IInv

\* A candidate that does not match is only counted.
LEMMA FailKeeps ==
    ASSUME IInv, TryCandidate, found' = found PROVE IInv'
<1>1. AtCase /\ Tiles /\ AtNode /\ current # None /\ index < Len(candidates)
  BY DEF IInv, TryCandidate
<1>2. PICK m : /\ m = Matches(doc, query, candidates[index + 1], current)
               /\ \/ m = {} /\ UNCHANGED <<call, pending, taken, found, handed>>
                  \/ \E caps \in m : found' = Append(found, [pattern |-> candidates[index + 1],
                                                             node |-> current, caps |-> caps])
  BY DEF TryCandidate
<1>3. m = {} /\ UNCHANGED <<call, pending, taken, found, handed>>
  <2>1. found \in Seq(Match)
    BY DEF IInv, FoundBelow
  <2>2. \A x : Append(found, x) # found
    <3>1. \A x : Len(Append(found, x)) = Len(found) + 1 /\ Len(found) \in Nat
      BY <2>1
    <3> QED BY <3>1
  <2> QED BY <1>2, <2>2
<1>4. UNCHANGED <<doc, query, worklist, current, candidates, done>> /\ index' = index + 1
  BY DEF TryCandidate
<1>5. AtCase' /\ Tiles' /\ Upcoming' = Upcoming
  BY <1>1, <1>4 DEF AtCase, Tiles, Upcoming
<1>6. candidates = ToTry(current) /\ candidates \in Seq(Nat) /\ index \in 0 .. Len(candidates)
  BY <1>1, QueryFacts DEF AtNode
<1>7. AtNode'
  <2>1. index + 1 \in 0 .. Len(candidates)
    BY <1>1, <1>6
  <2> QED BY <1>1, <1>4, <1>5, <2>1 DEF AtNode, ToTry
<1>8. Calls'
  BY <1>3, <1>4 DEF IInv, Calls
<1>9. FoundBelow'
  <2>1. \A j \in 1 .. index : j \in 1 .. index + 1
    BY <1>6
  <2>2. Match' = Match
    BY <1>4 DEF Match, Capture
  <2> QED BY <1>3, <1>4, <1>5, <2>1, <2>2 DEF IInv, FoundBelow
<1>10. FoundAll'
  <2>1. \A n \in DOMAIN doc.kids : ToTry(n)' = ToTry(n)
    BY <1>4 DEF ToTry
  <2> SUFFICES ASSUME NEW n \in DOMAIN doc.kids, NEW i \in DOMAIN ToTry(n),
                      n < Upcoming, n = current => i <= index + 1,
                      Matches(doc, query, ToTry(n)[i], n) # {}
               PROVE  \E k \in DOMAIN found : found[k].node = n /\ found[k].pattern = ToTry(n)[i]
    BY <1>3, <1>4, <1>5, <2>1 DEF FoundAll
  <2>2. n = current => i <= index
    <3> SUFFICES ASSUME n = current PROVE i <= index
      OBVIOUS
    <3>1. i # index + 1
      BY <1>2, <1>3, <1>6
    <3>2. i \in Nat
      BY <1>6
    <3> QED BY <1>6, <3>1, <3>2
  <2> QED BY <2>2 DEF IInv, FoundAll
<1>11. MatchesComeInOrder' /\ CapturesComeInOrder' /\ Buffer'
  BY <1>3, <1>4 DEF IInv, MatchesComeInOrder, CapturesComeInOrder, Buffer, Capture
<1> QED BY <1>5, <1>7, <1>8, <1>9, <1>10, <1>11 DEF IInv

\* One that matches comes behind all that were found.
LEMMA MatchKeeps ==
    ASSUME IInv, TryCandidate,
           NEW caps \in Matches(doc, query, candidates[index + 1], current), Return(caps),
           found' = Append(found, [pattern |-> candidates[index + 1], node |-> current,
                                   caps |-> caps])
    PROVE  IInv'
<1> DEFINE p   == candidates[index + 1]
           new == [pattern |-> p, node |-> current, caps |-> caps]
           n   == Len(found)
<1>1. AtCase /\ Tiles /\ AtNode /\ current # None /\ index < Len(candidates) /\ call # "none"
  BY DEF IInv, TryCandidate
<1>2. UNCHANGED <<doc, query, worklist, current, candidates, done>> /\ index' = index + 1
  BY DEF TryCandidate
<1>3. AtCase' /\ Tiles' /\ Upcoming' = Upcoming
  BY <1>1, <1>2 DEF AtCase, Tiles, Upcoming
<1>4. /\ current \in DOMAIN doc.kids /\ Upcoming = current + 1
      /\ candidates = ToTry(current) /\ candidates \in Seq(Nat) /\ index \in 0 .. Len(candidates)
  BY <1>1, QueryFacts DEF AtNode
<1>5. index + 1 \in DOMAIN candidates /\ index + 1 \in 1 .. Len(candidates) /\ p \in Nat
  BY <1>1, <1>4
<1>6. caps \in Seq(Capture)
  BY <1>1, <1>4, <1>5, QueryFacts
<1>7. AtNode'
  <2>1. index + 1 \in 0 .. Len(candidates)
    BY <1>5
  <2> QED BY <1>1, <1>2, <1>3, <2>1 DEF AtNode, ToTry
<1>8. /\ found \in Seq(Match) /\ n \in Nat /\ DOMAIN found = 1 .. n
      /\ \A k \in DOMAIN found :
           /\ found[k] \in Match /\ found[k].node < Upcoming
           /\ found[k].node = current => \E j \in 1 .. index : found[k].pattern = candidates[j]
  BY DEF IInv, FoundBelow
<1>9. new \in Match /\ new.node = current /\ new.pattern = p /\ new.caps = caps
  <2> HIDE DEF p
  <2> QED BY <1>4, <1>5, <1>6 DEF Match
<1> HIDE DEF p, new
<1>10. found' = Append(found, new)
  BY DEF new, p
<1>11. /\ found' \in Seq(Match) /\ Len(found') = n + 1 /\ DOMAIN found' = 1 .. n + 1
       /\ found'[n + 1] = new /\ \A k \in 1 .. n : found'[k] = found[k]
  BY <1>8, <1>9, <1>10
<1>12. current \in Nat
  BY <1>1, <1>4, TreeFacts
<1>13. FoundBelow'
  <2>1. Match' = Match
    BY <1>2 DEF Match, Capture
  <2> SUFFICES ASSUME NEW k \in 1 .. n + 1
               PROVE  /\ found'[k].node < Upcoming
                      /\ found'[k].node = current =>
                           \E j \in 1 .. index + 1 : found'[k].pattern = candidates[j]
    BY <1>2, <1>3, <1>11, <2>1 DEF FoundBelow
  <2>2. CASE k = n + 1
    <3>1. found'[k].node < Upcoming
      BY <1>4, <1>9, <1>11, <1>12, <2>2
    <3>2. index + 1 \in 1 .. index + 1 /\ found'[k].pattern = candidates[index + 1]
      BY <1>4, <1>9, <1>11, <2>2 DEF p
    <3> QED BY <3>1, <3>2
  <2>3. CASE k \in 1 .. n
    <3>1. \A j \in 1 .. index : j \in 1 .. index + 1
      BY <1>4
    <3> QED BY <1>8, <1>11, <2>3, <3>1
  <2> QED BY <1>8, <2>2, <2>3
<1>14. MatchesComeInOrder'
  <2> SUFFICES ASSUME NEW i \in 2 .. n + 1
               PROVE  \/ found'[i - 1].node < found'[i].node
                      \/ /\ found'[i - 1].node = found'[i].node
                         /\ found'[i - 1].pattern < found'[i].pattern
    BY <1>11 DEF MatchesComeInOrder
  <2>1. CASE i = n + 1
    <3>1. n \in DOMAIN found /\ found'[i - 1] = found[n] /\ found'[i] = new
      <4>1. n \in 1 .. n /\ i - 1 = n
        BY <1>8, <2>1
      <4> HIDE DEF n
      <4> QED BY <1>8, <1>11, <2>1, <4>1
    <3>2. found[n].node \in Nat /\ found[n].node < Upcoming
      <4>1. found[n].node \in DOMAIN doc.kids
        BY <1>8, <3>1 DEF Match
      <4>2. \A x \in DOMAIN doc.kids : x \in Nat
        BY <1>1, TreeFacts
      <4> QED BY <1>8, <3>1, <4>1, <4>2
    <3>3. CASE found[n].node = current
      <4>1. PICK j \in 1 .. index : found[n].pattern = candidates[j]
        BY <1>8, <3>1, <3>3
      <4>2. j \in DOMAIN candidates /\ j < index + 1
        BY <1>4, <1>5
      <4>3. candidates[j] < candidates[index + 1]
        BY <1>1, <1>4, <1>5, <4>2, QueryFacts
      <4> QED BY <1>9, <3>1, <3>3, <4>1, <4>3 DEF p
    <3>4. CASE found[n].node # current
      <4>1. found[n].node < current
        BY <1>4, <1>12, <3>2, <3>4
      <4> QED BY <1>9, <3>1, <4>1
    <3> QED BY <3>3, <3>4
  <2>2. CASE i \in 2 .. n
    <3>1. found'[i - 1] = found[i - 1] /\ found'[i] = found[i]
      BY <1>8, <1>11, <2>2
    <3> QED BY <2>2, <3>1 DEF IInv, MatchesComeInOrder
  <2> QED BY <1>8, <2>1, <2>2
<1>15. FoundAll'
  <2>1. \A m \in DOMAIN doc.kids : ToTry(m)' = ToTry(m)
    BY <1>2 DEF ToTry
  <2> SUFFICES ASSUME NEW m \in DOMAIN doc.kids, NEW i \in DOMAIN ToTry(m),
                      m < Upcoming, m = current => i <= index + 1,
                      Matches(doc, query, ToTry(m)[i], m) # {}
               PROVE  \E k \in 1 .. n + 1 :
                         found'[k].node = m /\ found'[k].pattern = ToTry(m)[i]
    BY <1>2, <1>3, <1>11, <2>1 DEF FoundAll
  <2>2. CASE m = current /\ i = index + 1
    <3>1. n + 1 \in 1 .. n + 1
      BY <1>8
    <3> QED BY <1>4, <1>9, <1>11, <2>2, <3>1 DEF p
  <2>3. CASE ~ (m = current /\ i = index + 1)
    <3>1. m = current => i <= index
      BY <1>4, <2>3
    <3>2. PICK k \in 1 .. n : found[k].node = m /\ found[k].pattern = ToTry(m)[i]
      BY <1>8, <3>1 DEF IInv, FoundAll
    <3>3. k \in 1 .. n + 1 /\ found'[k] = found[k]
      BY <1>8, <1>11
    <3> QED BY <3>2, <3>3
  <2> QED BY <2>2, <2>3
<1>16. Calls'
  BY <1>1, <1>2 DEF IInv, Calls, Return
<1>17. /\ handed \in Seq(Nat \X Nat) /\ pending = << >> /\ taken = 0
       /\ \A k \in DOMAIN handed : handed[k][1] \in 1 .. n
       /\ \A k \in DOMAIN handed :
            /\ handed[k][2] \in 1 .. Len(found[handed[k][1]].caps)
            /\ handed[k][2] = 1 => k = 1 \/ handed[k - 1][1] < handed[k][1]
            /\ handed[k][2] > 1 =>
                  k > 1 /\ handed[k - 1] = <<handed[k][1], handed[k][2] - 1>>
  <2>1. Buffer /\ CapturesComeInOrder
    BY DEF IInv
  <2>2. pending = << >> /\ taken \in 0 .. Len(pending)
    BY <1>1, <2>1 DEF Buffer
  <2>3. taken = 0
    BY <2>2
  <2> QED BY <2>1, <2>2, <2>3 DEF Buffer, CapturesComeInOrder
<1>18. Capture' = Capture
  BY <1>2 DEF Capture
<1>19. \A k \in DOMAIN handed : /\ handed[k][1] \in 1 .. n + 1
                                /\ found'[handed[k][1]] = found[handed[k][1]]
  BY <1>8, <1>11, <1>17
<1>20. CASE UNCHANGED <<pending, taken, handed>>
  <2>1. Buffer'
    BY <1>11, <1>17, <1>18, <1>19, <1>20 DEF Buffer
  <2>2. CapturesComeInOrder'
    BY <1>17, <1>19, <1>20 DEF CapturesComeInOrder
  <2> QED BY <1>3, <1>7, <1>13, <1>14, <1>15, <1>16, <2>1, <2>2 DEF IInv
<1>21. CASE /\ caps # << >> /\ call' = "none" /\ pending' = caps /\ taken' = 1
            /\ handed' = Append(handed, <<n + 1, 1>>)
  <2> DEFINE h == Len(handed)
  <2>1. /\ h \in Nat /\ DOMAIN handed = 1 .. h
        /\ handed' \in Seq(Nat \X Nat) /\ Len(handed') = h + 1 /\ DOMAIN handed' = 1 .. h + 1
        /\ handed'[h + 1] = <<n + 1, 1>> /\ \A k \in 1 .. h : handed'[k] = handed[k]
    BY <1>8, <1>17, <1>21
  <2> HIDE DEF h
  <2>2. Len(caps) \in Nat \ {0}
    BY <1>6, <1>21
  <2>3. Buffer'
    <3>1. \A k \in 1 .. h + 1 : handed'[k][1] \in 1 .. n + 1
      <4> TAKE k \in 1 .. h + 1
      <4>1. CASE k = h + 1
        BY <1>8, <2>1, <4>1
      <4>2. CASE k \in 1 .. h
        BY <1>19, <2>1, <4>2
      <4> QED BY <2>1, <4>1, <4>2
    <3>2. pending' \in Seq(Capture) /\ taken' \in 0 .. Len(pending')
      BY <1>6, <1>21, <2>2
    <3>3. handed' # << >> /\ found' # << >> /\ found'[Len(found')].caps = caps
      BY <1>8, <1>9, <1>11, <2>1
    <3> QED BY <1>11, <1>18, <1>21, <2>1, <3>1, <3>2, <3>3 DEF Buffer
  <2>4. CapturesComeInOrder'
    <3> SUFFICES ASSUME NEW k \in 1 .. h + 1
                 PROVE  /\ handed'[k][2] \in 1 .. Len(found'[handed'[k][1]].caps)
                        /\ handed'[k][2] = 1 => k = 1 \/ handed'[k - 1][1] < handed'[k][1]
                        /\ handed'[k][2] > 1 =>
                              k > 1 /\ handed'[k - 1] = <<handed'[k][1], handed'[k][2] - 1>>
      BY <2>1 DEF CapturesComeInOrder
    <3>1. CASE k = h + 1
      <4>1. handed'[k][1] = n + 1 /\ handed'[k][2] = 1
        BY <2>1, <3>1
      <4>2. k = 1 \/ handed'[k - 1][1] < handed'[k][1]
        <5> SUFFICES ASSUME k # 1 PROVE handed'[k - 1][1] < handed'[k][1]
          OBVIOUS
        <5>1. k - 1 \in DOMAIN handed /\ handed'[k - 1] = handed[k - 1]
          BY <2>1, <3>1
        <5>2. handed[k - 1][1] \in 1 .. n
          BY <1>17, <5>1
        <5> QED BY <1>8, <4>1, <5>1, <5>2
      <4> QED BY <1>9, <1>11, <2>2, <4>1, <4>2
    <3>2. CASE k \in 1 .. h
      <4>1. k \in DOMAIN handed /\ handed'[k] = handed[k]
        BY <2>1, <3>2
      <4>2. k # 1 => handed'[k - 1] = handed[k - 1]
        BY <2>1, <3>2
      <4>3. found'[handed[k][1]] = found[handed[k][1]]
        BY <1>19, <4>1
      <4>4. k \in Nat \ {0}
        BY <3>2
      <4>5. /\ handed[k][2] \in 1 .. Len(found[handed[k][1]].caps)
            /\ handed[k][2] = 1 => k = 1 \/ handed[k - 1][1] < handed[k][1]
            /\ handed[k][2] > 1 =>
                  k > 1 /\ handed[k - 1] = <<handed[k][1], handed[k][2] - 1>>
        BY <1>17, <4>1
      <4>6. k > 1 => k # 1
        BY <4>4
      <4> QED BY <4>1, <4>2, <4>3, <4>5, <4>6, Zenon
    <3>3. k = h + 1 \/ k \in 1 .. h
      BY <2>1
    <3> QED BY <3>1, <3>2, <3>3
  <2> QED BY <1>3, <1>7, <1>13, <1>14, <1>15, <1>16, <2>3, <2>4 DEF IInv
<1> QED BY <1>20, <1>21 DEF Return

LEMMA TryKeeps ==
    ASSUME IInv, TryCandidate PROVE IInv'
<1>1. CASE found' = found
  BY <1>1, FailKeeps
<1>2. CASE \E caps \in Matches(doc, query, candidates[index + 1], current) :
             /\ found' = Append(found, [pattern |-> candidates[index + 1], node |-> current,
                                        caps |-> caps])
             /\ Return(caps)
  <2>1. PICK caps \in Matches(doc, query, candidates[index + 1], current) :
             /\ found' = Append(found, [pattern |-> candidates[index + 1], node |-> current,
                                        caps |-> caps])
             /\ Return(caps)
    BY <1>2
  <2> QED BY <2>1, MatchKeeps
<1> QED BY <1>1, <1>2 DEF TryCandidate

LEMMA EndKeeps ==
    ASSUME IInv, EndOfWalk PROVE IInv'
<1>1. /\ UNCHANGED <<doc, query, worklist, current, candidates, index, pending, taken, found, handed>>
      /\ done' = TRUE /\ call' = "none" /\ current = None /\ worklist = << >>
  BY DEF EndOfWalk, place
<1>2. AtCase' /\ Tiles' /\ Upcoming' = Upcoming /\ AtNode' /\ Calls'
  BY <1>1 DEF IInv, AtCase, Tiles, Upcoming, AtNode, Calls, ToTry
<1>3. FoundBelow' /\ MatchesComeInOrder' /\ CapturesComeInOrder'
  BY <1>1, <1>2 DEF IInv, FoundBelow, Match, Capture, MatchesComeInOrder, CapturesComeInOrder
<1>4. FoundAll'
  <2>1. FoundAll /\ \A n : ToTry(n)' = ToTry(n)
    BY <1>1 DEF IInv, ToTry
  <2> QED BY <1>1, <1>2, <2>1 DEF FoundAll
<1>5. Buffer'
  BY <1>1 DEF IInv, Buffer, Capture
<1> QED BY <1>2, <1>3, <1>4, <1>5 DEF IInv

\* The walk stays where it is while captures are handed out or a call begins.
LEMMA PlaceKept ==
    ASSUME IInv, UNCHANGED <<doc, query, place, done, found>>, Calls', Buffer', CapturesComeInOrder'
    PROVE  IInv'
<1>1. UNCHANGED <<worklist, current, candidates, index>>
  BY DEF place
<1>2. AtCase' /\ Tiles' /\ Upcoming' = Upcoming /\ AtNode'
  BY <1>1 DEF IInv, AtCase, Tiles, Upcoming, AtNode, ToTry
<1>3. FoundBelow' /\ MatchesComeInOrder'
  BY <1>1, <1>2 DEF IInv, FoundBelow, Match, Capture, MatchesComeInOrder
<1>4. FoundAll'
  BY <1>1, <1>2 DEF IInv, FoundAll, ToTry
<1> QED BY <1>2, <1>3, <1>4 DEF IInv

LEMMA NewCallKeeps ==
    ASSUME IInv, CallNextMatch \/ CallNextCapture PROVE IInv'
<1>1. /\ UNCHANGED <<doc, query, place, done, found, handed>> /\ pending' = << >> /\ taken' = 0
      /\ call' \in {"match", "capture"} /\ call = "none" /\ ~ done
  BY DEF CallNextMatch, CallNextCapture
<1>2. Calls' /\ CapturesComeInOrder'
  <2>1. Calls'
    BY <1>1 DEF IInv, Calls, place
  <2>2. CapturesComeInOrder' <=> CapturesComeInOrder
    BY <1>1, Zenon DEF CapturesComeInOrder
  <2> QED BY <2>1, <2>2 DEF IInv
<1>3. Buffer'
  <2>1. << >> \in Seq(Capture) /\ 0 \in 0 .. Len(<< >>) /\ Capture' = Capture
    BY <1>1 DEF Capture
  <2> QED BY <1>1, <2>1 DEF IInv, Buffer
<1> QED BY <1>1, <1>2, <1>3, PlaceKept

LEMMA PendingKeeps ==
    ASSUME IInv, NextPendingCapture PROVE IInv'
<1> DEFINE h == Len(handed)
           n == Len(found)
<1>1. /\ UNCHANGED <<doc, query, place, pending, done, call, found>>
      /\ call = "none" /\ ~ done /\ taken < Len(pending) /\ taken' = taken + 1
      /\ handed' = Append(handed, <<n, taken + 1>>)
  BY DEF NextPendingCapture
<1>2. /\ pending \in Seq(Capture) /\ taken \in 0 .. Len(pending) /\ pending # << >>
      /\ handed \in Seq(Nat \X Nat) /\ \A k \in DOMAIN handed : handed[k][1] \in 1 .. n
      /\ found # << >> /\ pending = found[n].caps /\ taken > 0
      /\ handed # << >> /\ handed[h] = <<n, taken>>
  <2>1. Buffer
    BY DEF IInv
  <2>2. pending # << >>
    BY <1>1, <2>1 DEF Buffer
  <2> QED BY <2>1, <2>2 DEF Buffer
<1>3. n \in Nat \ {0} /\ taken \in Nat /\ Len(pending) \in Nat
  <2>1. found \in Seq(Match)
    BY DEF IInv, FoundBelow
  <2> QED BY <1>2, <2>1
<1>4. /\ h \in Nat \ {0} /\ DOMAIN handed = 1 .. h
      /\ handed' \in Seq(Nat \X Nat) /\ Len(handed') = h + 1 /\ DOMAIN handed' = 1 .. h + 1
      /\ handed'[h + 1] = <<n, taken + 1>> /\ \A k \in 1 .. h : handed'[k] = handed[k]
  BY <1>1, <1>2, <1>3
<1> HIDE DEF h, n
<1>5. Calls'
  BY <1>1 DEF IInv, Calls
<1>6. \A k \in 1 .. h + 1 : k = h + 1 \/ k \in 1 .. h
  BY <1>4
<1>7. Buffer'
  <2>1. \A k \in 1 .. h + 1 : handed'[k][1] \in 1 .. n
    <3> TAKE k \in 1 .. h + 1
    <3>1. CASE k = h + 1
      BY <1>3, <1>4, <3>1
    <3>2. CASE k \in 1 .. h
      BY <1>2, <1>4, <3>2
    <3> QED BY <1>6, <3>1, <3>2
  <2>2. taken' \in 0 .. Len(pending) /\ taken' > 0
    BY <1>1, <1>3
  <2>3. Capture' = Capture /\ handed' # << >>
    BY <1>1, <1>4 DEF Capture
  <2> QED BY <1>1, <1>2, <1>4, <2>1, <2>2, <2>3 DEF Buffer, n
<1>8. CapturesComeInOrder'
  <2>1. \A k \in 1 .. h :
          /\ handed[k][2] \in 1 .. Len(found[handed[k][1]].caps)
          /\ handed[k][2] = 1 => k = 1 \/ handed[k - 1][1] < handed[k][1]
          /\ handed[k][2] > 1 => k > 1 /\ handed[k - 1] = <<handed[k][1], handed[k][2] - 1>>
    BY <1>4 DEF IInv, CapturesComeInOrder
  <2> SUFFICES ASSUME NEW k \in 1 .. h + 1
               PROVE  /\ handed'[k][2] \in 1 .. Len(found[handed'[k][1]].caps)
                      /\ handed'[k][2] = 1 => k = 1 \/ handed'[k - 1][1] < handed'[k][1]
                      /\ handed'[k][2] > 1 =>
                            k > 1 /\ handed'[k - 1] = <<handed'[k][1], handed'[k][2] - 1>>
    BY <1>1, <1>4 DEF CapturesComeInOrder
  <2>2. CASE k = h + 1
    <3>1. handed'[k][1] = n /\ handed'[k][2] = taken + 1 /\ taken + 1 \in 1 .. Len(found[n].caps)
      BY <1>1, <1>2, <1>3, <1>4, <2>2
    <3>2. taken + 1 # 1 /\ (taken + 1) - 1 = taken
      BY <1>2, <1>3
    <3>3. k > 1 /\ k - 1 = h /\ handed'[k - 1] = <<n, taken>>
      <4>1. k > 1 /\ k - 1 = h /\ h \in 1 .. h
        BY <1>4, <2>2
      <4> QED BY <1>2, <1>4, <4>1
    <3> QED BY <3>1, <3>2, <3>3
  <2>3. CASE k \in 1 .. h
    <3>1. handed'[k] = handed[k] /\ (k # 1 => handed'[k - 1] = handed[k - 1]) /\ (k > 1 => k # 1)
      BY <1>4, <2>3
    <3>2. /\ handed[k][2] \in 1 .. Len(found[handed[k][1]].caps)
          /\ handed[k][2] = 1 => k = 1 \/ handed[k - 1][1] < handed[k][1]
          /\ handed[k][2] > 1 => k > 1 /\ handed[k - 1] = <<handed[k][1], handed[k][2] - 1>>
      BY <2>1, <2>3
    <3> QED BY <3>1, <3>2, Zenon
  <2> QED BY <1>6, <2>2, <2>3
<1> QED BY <1>1, <1>5, <1>7, <1>8, PlaceKept

LEMMA StutterKeeps == ASSUME IInv, UNCHANGED vars PROVE IInv'
<1>1. UNCHANGED <<doc, query, place, pending, taken, done, call, found, handed>>
  BY DEF vars
<1>2. Calls' /\ CapturesComeInOrder'
  <2>1. Calls'
    BY <1>1 DEF IInv, Calls, place
  <2>2. CapturesComeInOrder' <=> CapturesComeInOrder
    BY <1>1, Zenon DEF CapturesComeInOrder
  <2> QED BY <2>1, <2>2 DEF IInv
<1>3. Buffer'
  BY <1>1 DEF IInv, Buffer, Capture
<1> QED BY <1>1, <1>2, <1>3, PlaceKept

LEMMA CursorKeeps == ASSUME IInv, [Next]_vars PROVE IInv'
<1>1. CASE CallNextMatch
  BY <1>1, NewCallKeeps
<1>2. CASE NextPendingCapture
  BY <1>2, PendingKeeps
<1>3. CASE CallNextCapture
  BY <1>3, NewCallKeeps
<1>4. CASE CallAfterEnd
  BY <1>4, StutterKeeps DEF CallAfterEnd
<1>5. CASE VisitNode
  BY <1>5, VisitKeeps
<1>6. CASE TryCandidate
  BY <1>6, TryKeeps
<1>7. CASE LeaveNode
  BY <1>7, LeaveKeeps
<1>8. CASE EndOfWalk
  BY <1>8, EndKeeps
<1>9. CASE UNCHANGED vars
  BY <1>9, StutterKeeps
<1> QED BY <1>1, <1>2, <1>3, <1>4, <1>5, <1>6, <1>7, <1>8, <1>9 DEF Next, Call, Work
-----------------------------------------------------------------------------
\* The theorems.

\* However NextMatch and NextCapture are mixed, the cursor has visited the
\* nodes up to the upcoming one, tried every candidate at each of them but
\* the last, and what it found and handed out is in order.
THEOREM Invariant == Spec => []IInv
<1>1. IInv /\ [Next]_vars => IInv'
  BY CursorKeeps
<1> QED BY InitKeeps, <1>1, PTL DEF Spec

\* TypeOK: the cursor stays within the document, its index within the
\* candidates, and what it has handed out within the last match.
THEOREM TypeCorrect == Spec => []TypeOK
<1>1. IInv => TypeOK
  <2> SUFFICES ASSUME IInv PROVE TypeOK
    OBVIOUS
  <2>1. AtCase /\ Tiles /\ AtNode /\ Calls /\ Buffer /\ FoundBelow
    BY DEF IInv
  <2>2. \A i \in DOMAIN worklist : worklist[i] \in DOMAIN doc.kids
    BY <2>1 DEF Tiles
  <2>3. current \in DOMAIN doc.kids \cup {None} /\ index \in 0 .. Len(candidates)
    BY <2>1 DEF AtNode
  <2>4. \A i \in DOMAIN candidates : candidates[i] \in DOMAIN query.patterns
    <3>1. CASE current = None
      BY <2>1, <3>1 DEF AtNode
    <3>2. CASE current # None
      BY <2>1, <3>2, QueryFacts DEF AtNode
    <3> QED BY <3>1, <3>2
  <2>5. \A i \in DOMAIN found : found[i] \in Match
    BY <2>1 DEF FoundBelow
  <2>6. \A i \in DOMAIN found : /\ found[i].node \in DOMAIN doc.kids
                                /\ \A j \in DOMAIN found[i].caps :
                                      found[i].caps[j].node \in DOMAIN doc.kids
    <3> TAKE i \in DOMAIN found
    <3>1. found[i].node \in DOMAIN doc.kids /\ found[i].caps \in Seq(Capture)
      BY <2>5 DEF Match
    <3>2. \A j \in DOMAIN found[i].caps : found[i].caps[j] \in Capture
      BY <3>1
    <3> QED BY <3>1, <3>2 DEF Capture
  <2> QED BY <2>1, <2>2, <2>3, <2>4, <2>6 DEF TypeOK, Calls, Buffer
<1> QED BY <1>1, Invariant, PTL

\* MatchesComeInOrder: the worklist of NextMatch yields the document in
\* preorder, so no match comes twice or behind one of a later node, whatever
\* the tree's shape and the query.
THEOREM MatchesInOrder == Spec => []MatchesComeInOrder
<1>1. IInv => MatchesComeInOrder
  BY DEF IInv
<1> QED BY <1>1, Invariant, PTL

\* CapturesComeInOrder: a caller who mixes NextMatch and NextCapture, in any
\* order, gets no capture twice, none out of place, and never one of a match
\* that was passed.
THEOREM CapturesInOrder == Spec => []CapturesComeInOrder
<1>1. IInv => CapturesComeInOrder
  BY DEF IInv
<1> QED BY <1>1, Invariant, PTL

\* EveryNodeIsTried: a cursor that reports its end has left out no node of
\* the tree and no candidate at any of them.
THEOREM WalkIsComplete == Spec => []EveryNodeIsTried
<1>1. IInv => EveryNodeIsTried
  <2> SUFFICES ASSUME IInv, done, NEW n \in DOMAIN doc.kids, NEW i \in DOMAIN ToTry(n),
                      Matches(doc, query, ToTry(n)[i], n) # {}
               PROVE  \E k \in DOMAIN found : found[k].node = n /\ found[k].pattern = ToTry(n)[i]
    BY DEF EveryNodeIsTried, ToTry
  <2>1. AtCase /\ worklist = << >> /\ current = None
    BY DEF IInv, Calls
  <2>2. n < Upcoming /\ n # current
    BY <2>1, TreeFacts DEF Upcoming, None
  <2> QED BY <2>2 DEF IInv, FoundAll
<1> QED BY <1>1, Invariant, PTL

-----------------------------------------------------------------------------
(* The highlighter, for every document whose nodes nest: however many      *)
(* captures there are, and in whatever order sort.Slice leaves those of    *)
(* one start and width, the sweep shows at every byte a narrowest one.     *)

\* What goes into the sweep: ranges that are not empty, by their starts.
Ranged == [start : Nat, stop : Nat, capture : CaptureNames]
Sorted(ranges) ==
    /\ ranges \in Seq(Ranged) /\ ranges # << >>
    /\ \A i \in DOMAIN ranges : ranges[i].start < ranges[i].stop
    /\ \A i, j \in DOMAIN ranges : i < j => ranges[i].start <= ranges[j].start

Begin(ranges, i) == [pos |-> ranges[i].start, isStart |-> TRUE, idx |-> i]
End(ranges, i)   == [pos |-> ranges[i].stop, isStart |-> FALSE, idx |-> i]

\* The ranges at byte b.
At(ranges, b) == {i \in DOMAIN ranges : Covers(ranges[i], b)}

\* The last of the ranges is the one shown: none if there is none.
IsTop(ranges, is, name) ==
    IF is = {} THEN name = NoCapture
    ELSE \E i \in is : (\A j \in is : j <= i) /\ name = ranges[i].capture

Segment == [start : Nat, stop : Nat, capture : CaptureNames]
ShowsAt(ranges, result, b) ==
    LET here == {k \in DOMAIN result : Covers(result[k], b)}
    IN  IF At(ranges, b) = {} THEN here = {}
        ELSE \E k \in here : here = {k} /\ IsTop(ranges, At(ranges, b), result[k].capture)
-----------------------------------------------------------------------------
\* The order of the events.

LEMMA SortedFacts ==
    ASSUME NEW ranges, Sorted(ranges)
    PROVE  /\ Len(ranges) \in Nat /\ Len(ranges) > 0 /\ DOMAIN ranges = 1 .. Len(ranges)
           /\ \A i \in 1 .. Len(ranges) :
                /\ ranges[i] \in Ranged /\ ranges[i].start \in Nat /\ ranges[i].stop \in Nat
                /\ ranges[i].start < ranges[i].stop /\ ranges[i].capture \in CaptureNames
           /\ \A i, j \in 1 .. Len(ranges) : i < j => ranges[i].start <= ranges[j].start
<1>1. /\ ranges \in Seq(Ranged) /\ ranges # << >>
      /\ \A i \in DOMAIN ranges : ranges[i].start < ranges[i].stop
      /\ \A i, j \in DOMAIN ranges : i < j => ranges[i].start <= ranges[j].start
  BY DEF Sorted
<1>2. /\ Len(ranges) \in Nat /\ Len(ranges) > 0 /\ DOMAIN ranges = 1 .. Len(ranges)
      /\ \A i \in 1 .. Len(ranges) : ranges[i] \in Ranged
  BY <1>1
<1>3. \A r \in Ranged : r.start \in Nat /\ r.stop \in Nat /\ r.capture \in CaptureNames
  BY DEF Ranged
<1> QED BY <1>1, <1>2, <1>3

LEMMA EventFacts ==
    ASSUME NEW ranges, Sorted(ranges), NEW e \in Events(ranges)
    PROVE  /\ e.pos \in Nat /\ e.isStart \in BOOLEAN /\ e.idx \in 1 .. Len(ranges)
           /\ e = IF e.isStart THEN Begin(ranges, e.idx) ELSE End(ranges, e.idx)
           /\ e.pos = IF e.isStart THEN ranges[e.idx].start ELSE ranges[e.idx].stop
<1>1. \E i \in 1 .. Len(ranges) : e = Begin(ranges, i) \/ e = End(ranges, i)
  BY SortedFacts DEF Events, Begin, End
<1>2. PICK i \in 1 .. Len(ranges) : e = Begin(ranges, i) \/ e = End(ranges, i)
  BY <1>1
<1>3. ranges[i].start \in Nat /\ ranges[i].stop \in Nat
  BY SortedFacts
<1>4. CASE e = Begin(ranges, i)
  <2>1. e.pos = ranges[i].start /\ e.isStart = TRUE /\ e.idx = i
    BY <1>4 DEF Begin
  <2> QED BY <1>3, <1>4, <2>1
<1>5. CASE e = End(ranges, i)
  <2>1. e.pos = ranges[i].stop /\ e.isStart = FALSE /\ e.idx = i
    BY <1>5 DEF End
  <2> QED BY <1>3, <1>5, <2>1
<1> QED BY <1>2, <1>4, <1>5

LEMMA EventsAre ==
    ASSUME NEW ranges, Sorted(ranges), NEW i \in 1 .. Len(ranges)
    PROVE  /\ Begin(ranges, i) \in Events(ranges) /\ End(ranges, i) \in Events(ranges)
           /\ Begin(ranges, i).pos = ranges[i].start /\ End(ranges, i).pos = ranges[i].stop
           /\ Begin(ranges, i).idx = i /\ End(ranges, i).idx = i
           /\ Begin(ranges, i).isStart = TRUE /\ End(ranges, i).isStart = FALSE
BY SortedFacts DEF Events, Begin, End

\* EventBefore is a strict order in which any two events are comparable.
LEMMA OrderOfEvents ==
    ASSUME NEW ranges, Sorted(ranges),
           NEW e \in Events(ranges), NEW f \in Events(ranges), NEW g \in Events(ranges)
    PROVE  /\ ~ EventBefore(e, e)
           /\ EventBefore(e, f) /\ EventBefore(f, g) => EventBefore(e, g)
           /\ e # f => EventBefore(e, f) \/ EventBefore(f, e)
           /\ EventBefore(e, f) => e.pos <= f.pos
<1>1. /\ e.pos \in Nat /\ f.pos \in Nat /\ g.pos \in Nat
      /\ e.idx \in Nat /\ f.idx \in Nat /\ g.idx \in Nat
      /\ e.isStart \in BOOLEAN /\ f.isStart \in BOOLEAN /\ g.isStart \in BOOLEAN
  BY EventFacts, SortedFacts
<1>2. e # f => e.isStart # f.isStart \/ e.idx # f.idx
  BY EventFacts
<1>3. ~ EventBefore(e, e)
  BY <1>1 DEF EventBefore
<1>4. EventBefore(e, f) /\ EventBefore(f, g) => EventBefore(e, g)
  BY <1>1 DEF EventBefore
<1>5. e # f => EventBefore(e, f) \/ EventBefore(f, e)
  BY <1>1, <1>2 DEF EventBefore
<1>6. EventBefore(e, f) => e.pos <= f.pos
  BY <1>1 DEF EventBefore
<1> QED BY <1>3, <1>4, <1>5, <1>6

\* In a finite set with such an order, given by what comes before each member,
\* every rank is that of one member.
Orders(E, before) ==
    /\ IsFiniteSet(E) /\ before \in [E -> SUBSET E]
    /\ \A e \in E : e \notin before[e]
    /\ \A e, f \in E : e \in before[f] => before[e] \subseteq before[f]
    /\ \A e, f \in E : e # f => e \in before[f] \/ f \in before[e]

LEMMA RanksAreUnique ==
    ASSUME NEW E, NEW before, Orders(E, before)
    PROVE  /\ Cardinality(E) \in Nat
           /\ \A e \in E : Cardinality(before[e]) \in 0 .. Cardinality(E) - 1
           /\ \A e, f \in E : e \in before[f] => Cardinality(before[e]) < Cardinality(before[f])
           /\ \A k \in 0 .. Cardinality(E) - 1 : \E e \in E : Cardinality(before[e]) = k
<1> DEFINE N == Cardinality(E)
           rank == [e \in E |-> Cardinality(before[e])]
<1>1. N \in Nat
  BY FS_CardinalityType DEF Orders
<1>2. \A S \in SUBSET E : IsFiniteSet(S) /\ Cardinality(S) \in Nat /\ Cardinality(S) <= N
  BY FS_Subset, FS_CardinalityType DEF Orders
<1>3. \A S, T \in SUBSET E : S \subseteq T => Cardinality(S) <= Cardinality(T)
  <2> TAKE S, T \in SUBSET E
  <2> HAVE S \subseteq T
  <2>1. IsFiniteSet(T) /\ S \in SUBSET T
    BY <1>2
  <2> QED BY <2>1, FS_Subset
<1>4. \A S \in SUBSET E : \A e \in E \ S : Cardinality(S \cup {e}) = Cardinality(S) + 1
  BY <1>2, FS_AddElement
<1>5. \A e \in E : Cardinality(before[e]) \in 0 .. N - 1
  <2> TAKE e \in E
  <2>1. before[e] \in SUBSET E /\ e \in E \ before[e] /\ before[e] \cup {e} \in SUBSET E
    BY DEF Orders
  <2>2. Cardinality(before[e]) + 1 <= N /\ Cardinality(before[e]) \in Nat
    BY <1>2, <1>4, <2>1
  <2> HIDE DEF N
  <2> QED BY <1>1, <2>2
<1>6. \A e, f \in E : e \in before[f] => Cardinality(before[e]) < Cardinality(before[f])
  <2> TAKE e, f \in E
  <2> HAVE e \in before[f]
  <2>1. /\ before[e] \in SUBSET E /\ e \in E \ before[e] /\ before[e] \cup {e} \in SUBSET E
        /\ before[f] \in SUBSET E /\ before[e] \cup {e} \subseteq before[f]
    BY DEF Orders
  <2>2. Cardinality(before[e]) + 1 <= Cardinality(before[f])
    BY <1>3, <1>4, <2>1
  <2>3. Cardinality(before[e]) \in Nat /\ Cardinality(before[f]) \in Nat
    BY <1>2, <2>1
  <2> QED BY <2>2, <2>3
<1>7. rank \in Injection(E, 0 .. N - 1)
  <2>1. rank \in [E -> 0 .. N - 1]
    BY <1>5
  <2>2. \A e, f \in E : rank[e] = rank[f] => e = f
    <3> TAKE e, f \in E
    <3>1. rank[e] = Cardinality(before[e]) /\ rank[f] = Cardinality(before[f])
      OBVIOUS
    <3>2. Cardinality(before[e]) \in Nat /\ Cardinality(before[f]) \in Nat
      BY <1>5
    <3>3. e # f => e \in before[f] \/ f \in before[e]
      BY DEF Orders
    <3>4. /\ e \in before[f] => Cardinality(before[e]) < Cardinality(before[f])
          /\ f \in before[e] => Cardinality(before[f]) < Cardinality(before[e])
      BY <1>6
    <3> DEFINE p == Cardinality(before[e])
               q == Cardinality(before[f])
    <3>5. p = q => ~ (p < q) /\ ~ (q < p)
      BY <3>2
    <3> HIDE DEF rank, p, q
    <3>6. rank[e] = p /\ rank[f] = q
      BY <3>1 DEF p, q
    <3> QED BY <3>3, <3>4, <3>5, <3>6 DEF p, q
  <2> HIDE DEF rank
  <2> QED BY <2>1, <2>2 DEF Injection, IsInjective
<1>8. IsFiniteSet(0 .. N - 1) /\ Cardinality(0 .. N - 1) = N
  <2>1. 0 \in Int /\ N - 1 \in Int
    BY <1>1
  <2>2. IsFiniteSet(0 .. N - 1) /\ Cardinality(0 .. N - 1) = IF 0 > N - 1 THEN 0 ELSE (N - 1) - 0 + 1
    BY <2>1, FS_Interval
  <2> HIDE DEF N
  <2> QED BY <1>1, <2>2
<1>9. rank \in Surjection(E, 0 .. N - 1)
  <2> HIDE DEF rank
  <2> QED BY <1>7, <1>8, FS_Injection
<1>10. \A k \in 0 .. N - 1 : \E e \in E : rank[e] = k
  BY <1>9 DEF Surjection
<1>11. \A k \in 0 .. N - 1 : \E e \in E : Cardinality(before[e]) = k
  <2> TAKE k \in 0 .. N - 1
  <2>1. PICK e \in E : rank[e] = k
    BY <1>10
  <2> QED BY <2>1
<1> QED BY <1>1, <1>5, <1>6, <1>11

\* So every event gets a place, and they are in order.
LEMMA EventsInOrder ==
    ASSUME NEW ranges, Sorted(ranges), NEW s, s = SortedEvents(ranges)
    PROVE  /\ s \in Seq(Events(ranges)) /\ Len(s) > 0
           /\ \A e \in Events(ranges) : \E k \in 1 .. Len(s) : s[k] = e
           /\ \A j, k \in 1 .. Len(s) : j < k => EventBefore(s[j], s[k])
<1> DEFINE E == Events(ranges)
           N == Cardinality(E)
           B(e) == {f \in E : EventBefore(f, e)}
           before == [e \in E |-> B(e)]
<1>1. IsFiniteSet(E)
  <2> DEFINE n == Len(ranges)
             starts == {Begin(ranges, i) : i \in 1 .. n}
             stops == {End(ranges, i) : i \in 1 .. n}
  <2>1. n \in Nat /\ IsFiniteSet(1 .. n)
    BY SortedFacts, FS_Interval
  <2>2. [i \in 1 .. n |-> Begin(ranges, i)] \in Surjection(1 .. n, starts)
    BY DEF Surjection
  <2>3. [i \in 1 .. n |-> End(ranges, i)] \in Surjection(1 .. n, stops)
    BY DEF Surjection
  <2>4. E = starts \cup stops
    BY SortedFacts, Zenon DEF Events, Begin, End
  <2> HIDE DEF E, n, starts, stops
  <2>5. IsFiniteSet(starts) /\ IsFiniteSet(stops)
    BY <2>1, <2>2, <2>3, FS_Surjection
  <2> QED BY <2>4, <2>5, FS_Union
<1> HIDE DEF E
<1>2. Orders(E, before)
  <2>1. before \in [E -> SUBSET E]
    OBVIOUS
  <2>2. \A e, f, g \in E : /\ ~ EventBefore(e, e)
                           /\ EventBefore(e, f) /\ EventBefore(f, g) => EventBefore(e, g)
                           /\ e # f => EventBefore(e, f) \/ EventBefore(f, e)
    BY OrderOfEvents DEF E
  <2>3. \A e \in E : e \notin before[e]
    BY <2>2
  <2>4. \A e, f \in E : e \in before[f] => before[e] \subseteq before[f]
    BY <2>2
  <2>5. \A e, f \in E : e # f => e \in before[f] \/ f \in before[e]
    BY <2>2
  <2> HIDE DEF before
  <2> QED BY <1>1, <2>1, <2>3, <2>4, <2>5 DEF Orders
<1> DEFINE r(e) == Cardinality(B(e))
<1>3. /\ N \in Nat /\ \A e \in E : r(e) \in 0 .. N - 1
      /\ \A e, f \in E : EventBefore(e, f) => r(e) < r(f)
      /\ \A k \in 0 .. N - 1 : \E e \in E : r(e) = k
  <2>1. \A e \in E : before[e] = B(e)
    OBVIOUS
  <2>2. \A e, f \in E : EventBefore(e, f) => e \in before[f]
    OBVIOUS
  <2> HIDE DEF before
  <2>3. /\ Cardinality(E) \in Nat
        /\ \A e \in E : Cardinality(before[e]) \in 0 .. Cardinality(E) - 1
        /\ \A e, f \in E : e \in before[f] => Cardinality(before[e]) < Cardinality(before[f])
        /\ \A k \in 0 .. Cardinality(E) - 1 : \E e \in E : Cardinality(before[e]) = k
    <3> HIDE DEF N, B
    <3> QED BY <1>2, RanksAreUnique
  <2> HIDE DEF B
  <2> QED BY <2>1, <2>2, <2>3
<1>4. s = [k \in 1 .. N |-> CHOOSE e \in E : r(e) = k - 1]
  BY Zenon DEF SortedEvents, E
<1> HIDE DEF r, N, before
<1>5. \A k \in 1 .. N : s[k] \in E /\ r(s[k]) = k - 1
  <2> TAKE k \in 1 .. N
  <2>1. k - 1 \in 0 .. N - 1
    BY <1>3
  <2>2. \E e \in E : r(e) = k - 1
    BY <1>3, <2>1
  <2>3. s[k] = CHOOSE e \in E : r(e) = k - 1
    BY <1>4
  <2> QED BY <2>2, <2>3
<1>6. s \in Seq(E) /\ Len(s) = N
  BY <1>3, <1>4, <1>5
<1>7. \A e, f \in E : r(e) = r(f) => e = f
  <2> TAKE e, f \in E
  <2>1. e # f => EventBefore(e, f) \/ EventBefore(f, e)
    BY OrderOfEvents DEF E
  <2>2. r(e) \in Nat /\ r(f) \in Nat
    BY <1>3
  <2> QED BY <1>3, <2>1, <2>2
<1>8. \A e \in E : \E k \in 1 .. N : s[k] = e
  <2> TAKE e \in E
  <2>1. r(e) + 1 \in 1 .. N /\ (r(e) + 1) - 1 = r(e)
    BY <1>3
  <2>2. r(s[r(e) + 1]) = r(e) /\ s[r(e) + 1] \in E
    BY <1>5, <2>1
  <2> QED BY <1>7, <2>1, <2>2
<1>9. \A j, k \in 1 .. N : j < k => EventBefore(s[j], s[k])
  <2> TAKE j, k \in 1 .. N
  <2> HAVE j < k
  <2>1. /\ s[j] \in E /\ s[k] \in E /\ r(s[j]) = j - 1 /\ r(s[k]) = k - 1
    BY <1>5
  <2>2. s[j] # s[k] /\ ~ (r(s[k]) < r(s[j]))
    BY <2>1, <1>3
  <2>3. EventBefore(s[j], s[k]) \/ EventBefore(s[k], s[j])
    BY <2>1, <2>2, OrderOfEvents DEF E
  <2> QED BY <1>3, <2>1, <2>2, <2>3
<1>10. N > 0
  <2>1. 1 \in 1 .. Len(ranges)
    BY SortedFacts
  <2>2. Begin(ranges, 1) \in E
    BY <2>1, EventsAre DEF E
  <2> QED BY <1>3, <2>2
<1> QED BY <1>6, <1>8, <1>9, <1>10 DEF E
-----------------------------------------------------------------------------
\* The stack of the sweep.

Rising(stack, n) ==
    /\ stack \in Seq(1 .. n)
    /\ \A i, j \in 1 .. Len(stack) : i < j => stack[i] < stack[j]
Has(stack, is) == \A i \in is : \E k \in 1 .. Len(stack) : stack[k] = i
Within(top, stack) == \A i \in 1 .. Len(top) : \E j \in 1 .. Len(stack) : top[i] = stack[j]

LEMMA PopTakesTheRest ==
    ASSUME NEW n \in Nat, NEW stack, Rising(stack, n), NEW is \in SUBSET (1 .. n), Has(stack, is),
           NEW top, top = PopInactive(stack, is)
    PROVE  /\ Rising(top, n) /\ Has(top, is) /\ Within(top, stack)
           /\ top = << >> <=> is = {}
           /\ top # << >> => Last(top) \in is /\ \A i \in is : i <= Last(top)
<1> DEFINE live == {i \in DOMAIN stack : stack[i] \in is}
           len == Len(stack)
<1>1. /\ stack \in Seq(1 .. n) /\ len \in Nat /\ DOMAIN stack = 1 .. len
      /\ \A i \in 1 .. len : stack[i] \in 1 .. n
      /\ \A i, j \in 1 .. len : i < j => stack[i] < stack[j]
  BY DEF Rising
<1>2. live \subseteq 0 .. len
  BY <1>1
<1>3. \A i \in is : \E k \in live : stack[k] = i
  BY <1>1 DEF Has
<1>4. CASE live = {}
  <2>1. is = {} /\ top = << >>
    BY <1>3, <1>4 DEF PopInactive
  <2>2. Rising(<< >>, n) /\ Has(<< >>, {}) /\ Within(<< >>, stack)
    BY DEF Rising, Has, Within
  <2> QED BY <2>1, <2>2
<1>5. CASE live # {}
  <2> DEFINE m == CHOOSE i \in live : \A j \in live : j <= i
  <2>1. \E i \in live : \A j \in live : j <= i
    <3> HIDE DEF live, len
    <3> QED BY <1>1, <1>2, <1>5, GreatestElement
  <2>2. m \in live /\ \A j \in live : j <= m
    <3> HIDE DEF live
    <3> QED BY <2>1
  <2>3. top = SubSeq(stack, 1, m)
    BY <1>5 DEF PopInactive
  <2>4. m \in 1 .. len /\ stack[m] \in is
    BY <1>1, <2>2
  <2> HIDE DEF m, live, len
  <2>5. /\ top \in Seq(1 .. n) /\ Len(top) = m /\ m \in Nat /\ m > 0
        /\ \A i \in 1 .. m : top[i] = stack[i] /\ i \in 1 .. len
    <3>1. 1 \in 1 .. len /\ m \in 1 .. len /\ \A i \in 1 .. m : stack[i] \in 1 .. n /\ i \in 1 .. len
      BY <1>1, <2>4
    <3>2. m \in Nat /\ m > 0
      BY <1>1, <2>4
    <3>3. /\ SubSeq(stack, 1, m) \in Seq(1 .. n) /\ Len(SubSeq(stack, 1, m)) = m
          /\ \A i \in 1 .. m : SubSeq(stack, 1, m)[i] = stack[i]
      BY <1>1, <3>1, <3>2
    <3> QED BY <2>3, <3>1, <3>2, <3>3
  <2>6. Rising(top, n)
    BY <1>1, <2>5 DEF Rising
  <2>7. Has(top, is)
    <3> SUFFICES ASSUME NEW i \in is PROVE \E k \in 1 .. Len(top) : top[k] = i
      BY DEF Has
    <3>1. PICK k \in live : stack[k] = i
      BY <1>3
    <3>2. k \in 1 .. m
      BY <1>1, <2>2, <2>4, <3>1 DEF live
    <3> QED BY <2>5, <3>1, <3>2
  <2>8. Within(top, stack)
    BY <2>5 DEF Within, len
  <2>9. Last(top) = stack[m] /\ top # << >>
    BY <2>5 DEF Last
  <2>10. \A i \in is : i <= stack[m]
    <3> TAKE i \in is
    <3>1. PICK k \in live : stack[k] = i
      BY <1>3
    <3>2. k \in 1 .. len /\ k <= m
      BY <1>1, <2>2, <3>1 DEF live
    <3>3. k < m => stack[k] < stack[m]
      BY <1>1, <2>4, <3>2
    <3>4. k = m \/ k < m
      BY <3>2, <2>4, <1>1
    <3>5. stack[k] \in Nat /\ stack[m] \in Nat
      BY <1>1, <2>4, <3>2
    <3> QED BY <3>1, <3>3, <3>4, <3>5
  <2> QED BY <2>4, <2>6, <2>7, <2>8, <2>9, <2>10
<1> QED BY <1>4, <1>5

\* The ranges begun and not ended with event k of s.
Active(ranges, s, k) ==
    {i \in 1 .. Len(ranges) : /\ \E j \in 1 .. k : s[j] = Begin(ranges, i)
                              /\ \A j \in 1 .. k : s[j] # End(ranges, i)}

\* Between two events these are the ranges that cover a byte.
LEMMA ActiveCovers ==
    ASSUME NEW ranges, Sorted(ranges), NEW s, s = SortedEvents(ranges), NEW k \in 0 .. Len(s),
           NEW b \in Nat, k > 0 => s[k].pos <= b, k < Len(s) => b < s[k + 1].pos
    PROVE  At(ranges, b) = Active(ranges, s, k)
<1> DEFINE m == Len(s)
<1>1. /\ s \in Seq(Events(ranges)) /\ m \in Nat /\ \A j \in 1 .. m : s[j] \in Events(ranges)
      /\ \A e \in Events(ranges) : \E j \in 1 .. m : s[j] = e
      /\ \A i, j \in 1 .. m : i < j => EventBefore(s[i], s[j])
  BY EventsInOrder
<1>2. \A j \in 1 .. m : s[j].pos \in Nat
  BY <1>1, EventFacts
<1>3. \A i, j \in 1 .. m : i <= j => s[i].pos <= s[j].pos
  <2> TAKE i, j \in 1 .. m
  <2> HAVE i <= j
  <2>1. CASE i = j
    BY <1>2, <2>1
  <2>2. CASE i # j
    <3>1. EventBefore(s[i], s[j])
      BY <1>1, <2>2
    <3> QED BY <1>1, <3>1, OrderOfEvents
  <2> QED BY <2>1, <2>2
<1>4. \A j \in 1 .. m : s[j].pos <= b <=> j <= k
  <2> TAKE j \in 1 .. m
  <2>1. CASE j <= k
    <3>1. k \in 1 .. m /\ s[k].pos <= b
      BY <1>1, <2>1
    <3> QED BY <1>2, <1>3, <2>1, <3>1
  <2>2. CASE ~ (j <= k)
    <3>1. k + 1 \in 1 .. m /\ k + 1 <= j /\ b < s[k + 1].pos
      BY <1>1, <2>2
    <3>2. s[k + 1].pos <= s[j].pos
      BY <1>3, <3>1
    <3> QED BY <1>2, <2>2, <3>1, <3>2
  <2> QED BY <2>1, <2>2
<1>5. \A j \in 1 .. k : j \in 1 .. m /\ j <= k
  <2>1. k \in Nat /\ k <= m
    BY <1>1
  <2> HIDE DEF m
  <2> QED BY <1>1, <2>1
<1>6. ASSUME NEW i \in 1 .. Len(ranges)
      PROVE  Covers(ranges[i], b) <=> i \in Active(ranges, s, k)
  <2>1. /\ Begin(ranges, i) \in Events(ranges) /\ End(ranges, i) \in Events(ranges)
        /\ Begin(ranges, i).pos = ranges[i].start /\ End(ranges, i).pos = ranges[i].stop
    BY <1>6, EventsAre
  <2>2. PICK p \in 1 .. m : s[p] = Begin(ranges, i)
    BY <1>1, <2>1
  <2>3. PICK q \in 1 .. m : s[q] = End(ranges, i)
    BY <1>1, <2>1
  <2>4. ranges[i].start <= b <=> \E j \in 1 .. k : s[j] = Begin(ranges, i)
    <3>1. \A j \in 1 .. k : s[j].pos <= b
      BY <1>4, <1>5
    <3>2. s[p].pos <= b => p \in 1 .. k
      BY <1>4
    <3> QED BY <2>1, <2>2, <3>1, <3>2
  <2>5. ranges[i].stop <= b <=> \E j \in 1 .. k : s[j] = End(ranges, i)
    <3>1. \A j \in 1 .. k : s[j].pos <= b
      BY <1>4, <1>5
    <3>2. s[q].pos <= b => q \in 1 .. k
      BY <1>4
    <3> QED BY <2>1, <2>3, <3>1, <3>2
  <2>6. ranges[i].stop \in Nat
    BY <1>6, SortedFacts
  <2>7. b < ranges[i].stop <=> ~ (ranges[i].stop <= b)
    BY <2>6
  <2> QED BY <1>6, <2>4, <2>5, <2>7 DEF Covers, Active
<1>7. At(ranges, b) = {i \in 1 .. Len(ranges) : Covers(ranges[i], b)}
  BY SortedFacts DEF At
<1>8. Active(ranges, s, k) \subseteq 1 .. Len(ranges)
  BY DEF Active
<1> QED BY <1>6, <1>7, <1>8
-----------------------------------------------------------------------------
\* The sweep.

Sweeps == [active : SUBSET Nat, stack : Seq(Nat), lastPos : Nat,
           shown : CaptureNames \cup {NoCapture}, result : Seq(Segment)]

\* After k events: the stack has the ranges that are open, the name shown is
\* that of the last of them, and every byte so far shows the last range there.
StackOK(ranges, s, w, k) ==
    /\ w.active = Active(ranges, s, k)
    /\ Rising(w.stack, Len(ranges)) /\ Has(w.stack, w.active)
    /\ \A i \in 1 .. Len(w.stack) : \E j \in 1 .. k : s[j] = Begin(ranges, w.stack[i])
    /\ w.lastPos = IF k = 0 THEN 0 ELSE s[k].pos
    /\ IsTop(ranges, w.active, w.shown)
ShownUpTo(ranges, result, pos) ==
    /\ result \in Seq(Segment)
    /\ \A b \in Nat : IF b < pos THEN ShowsAt(ranges, result, b)
                      ELSE \A i \in DOMAIN result : ~ Covers(result[i], b)
ResultOK(ranges, w) == ShownUpTo(ranges, w.result, w.lastPos)

LEMMA SweepFields ==
    ASSUME NEW ranges, NEW w, NEW ev
    PROVE  LET active == IF ev.isStart THEN w.active \cup {ev.idx} ELSE w.active \ {ev.idx}
               stack  == IF ev.isStart THEN Append(w.stack, ev.idx)
                         ELSE PopInactive(w.stack, active)
               top    == PopInactive(stack, active)
               swept  == Sweep(ranges, w, ev)
           IN  /\ swept.active = active /\ swept.stack = stack /\ swept.lastPos = ev.pos
               /\ swept.shown = IF top = << >> THEN NoCapture ELSE ranges[Last(top)].capture
               /\ swept.result = FlushSegment(w, ev.pos)
BY DEF Sweep

\* Ranges begin in their order, so one that begins goes on top of the stack,
\* and it is not over yet.
LEMMA BeginIsNext ==
    ASSUME NEW ranges, Sorted(ranges), NEW s, s = SortedEvents(ranges), NEW k \in 1 .. Len(s),
           NEW n \in 1 .. Len(ranges), s[k] = Begin(ranges, n)
    PROVE  /\ \A j \in 1 .. k - 1 : \A i \in 1 .. Len(ranges) : s[j] = Begin(ranges, i) => i < n
           /\ \A j \in 1 .. k : s[j] # End(ranges, n)
<1> DEFINE m == Len(s)
<1>1. m \in Nat /\ k \in 1 .. m /\ \A j, i \in 1 .. m : j < i => EventBefore(s[j], s[i])
  BY EventsInOrder
<1>2. \A j \in 1 .. k : j \in 1 .. m /\ (j < k => EventBefore(s[j], s[k]))
  <2> HIDE DEF m
  <2>1. \A j \in 1 .. k : j \in 1 .. m
    BY <1>1
  <2> QED BY <1>1, <2>1
<1>3. /\ s[k].pos = ranges[n].start /\ s[k].isStart = TRUE /\ s[k].idx = n
      /\ End(ranges, n).pos = ranges[n].stop /\ End(ranges, n).isStart = FALSE
      /\ ranges[n].start \in Nat /\ ranges[n].stop \in Nat /\ ranges[n].start < ranges[n].stop
  <2>1. /\ Begin(ranges, n).pos = ranges[n].start /\ Begin(ranges, n).isStart = TRUE
        /\ Begin(ranges, n).idx = n
        /\ End(ranges, n).pos = ranges[n].stop /\ End(ranges, n).isStart = FALSE
    BY EventsAre
  <2>2. ranges[n].start \in Nat /\ ranges[n].stop \in Nat /\ ranges[n].start < ranges[n].stop
    BY SortedFacts
  <2> QED BY <2>1, <2>2
<1>4. ASSUME NEW j \in 1 .. k - 1, NEW i \in 1 .. Len(ranges), s[j] = Begin(ranges, i)
      PROVE  i < n
  <2>1. EventBefore(s[j], s[k])
    <3>1. j \in 1 .. k /\ j < k
      BY <1>1, <1>4
    <3> QED BY <1>2, <3>1
  <2>2. s[j].pos = ranges[i].start /\ s[j].isStart = TRUE /\ s[j].idx = i
    <3>1. /\ Begin(ranges, i).pos = ranges[i].start /\ Begin(ranges, i).isStart = TRUE
          /\ Begin(ranges, i).idx = i
      BY <1>4, EventsAre
    <3> QED BY <1>4, <3>1
  <2>3. n < i => ranges[n].start <= ranges[i].start
    BY <1>4, SortedFacts
  <2>4. ranges[i].start \in Nat /\ i \in Nat /\ n \in Nat
    BY <1>4, SortedFacts
  <2>5. \/ ranges[i].start < ranges[n].start
        \/ ranges[i].start = ranges[n].start /\ i < n
    BY <1>3, <2>1, <2>2 DEF EventBefore
  <2> QED BY <1>3, <2>3, <2>4, <2>5
<1>5. ASSUME NEW j \in 1 .. k, s[j] = End(ranges, n) PROVE FALSE
  <2>1. j # k
    BY <1>3, <1>5
  <2>2. EventBefore(s[j], s[k])
    <3>1. j < k
      BY <1>1, <1>5, <2>1
    <3> QED BY <1>2, <1>5, <3>1
  <2>3. ranges[n].stop <= ranges[n].start
    BY <1>3, <1>5, <2>2 DEF EventBefore
  <2> QED BY <1>3, <2>3
<1> QED BY <1>4, <1>5

LEMMA ActiveSteps ==
    ASSUME NEW ranges, Sorted(ranges), NEW s, s = SortedEvents(ranges), NEW k \in 1 .. Len(s)
    PROVE  Active(ranges, s, k) = IF s[k].isStart THEN Active(ranges, s, k - 1) \cup {s[k].idx}
                                  ELSE Active(ranges, s, k - 1) \ {s[k].idx}
<1> DEFINE n == s[k].idx
<1>1. s[k] \in Events(ranges)
  BY EventsInOrder
<1>2. /\ n \in 1 .. Len(ranges) /\ s[k].isStart \in BOOLEAN
      /\ s[k] = IF s[k].isStart THEN Begin(ranges, n) ELSE End(ranges, n)
  BY <1>1, EventFacts
<1>3. \A i, j \in 1 .. Len(ranges) : /\ Begin(ranges, i) = Begin(ranges, j) => i = j
                                     /\ End(ranges, i) = End(ranges, j) => i = j
                                     /\ Begin(ranges, i) # End(ranges, j)
  <2> TAKE i, j \in 1 .. Len(ranges)
  <2>1. /\ Begin(ranges, i).idx = i /\ End(ranges, i).idx = i
        /\ Begin(ranges, i).isStart = TRUE /\ End(ranges, i).isStart = FALSE
        /\ Begin(ranges, j).idx = j /\ End(ranges, j).idx = j
        /\ Begin(ranges, j).isStart = TRUE /\ End(ranges, j).isStart = FALSE
    BY EventsAre
  <2> QED BY <2>1
<1>4. \A j : j \in 1 .. k <=> j \in 1 .. k - 1 \/ j = k
  BY EventsInOrder
<1> HIDE DEF n
<1>5. CASE s[k].isStart
  <2>1. s[k] = Begin(ranges, n) /\ \A j \in 1 .. k : s[j] # End(ranges, n)
    BY <1>2, <1>5, BeginIsNext
  <2>2. ASSUME NEW i \in 1 .. Len(ranges)
        PROVE  i \in Active(ranges, s, k) <=> i \in Active(ranges, s, k - 1) \/ i = n
    <3>1. s[k] # End(ranges, i) /\ (s[k] = Begin(ranges, i) <=> i = n)
      BY <1>2, <1>3, <2>1, <2>2
    <3> QED BY <1>4, <2>1, <2>2, <3>1 DEF Active
  <2> QED BY <1>2, <1>5, <2>2 DEF Active, n
<1>6. CASE ~ s[k].isStart
  <2>1. s[k] = End(ranges, n)
    BY <1>2, <1>6
  <2>2. ASSUME NEW i \in 1 .. Len(ranges)
        PROVE  i \in Active(ranges, s, k) <=> i \in Active(ranges, s, k - 1) /\ i # n
    <3>1. s[k] # Begin(ranges, i) /\ (s[k] = End(ranges, i) <=> i = n)
      BY <1>2, <1>3, <2>1, <2>2
    <3> QED BY <1>4, <2>1, <2>2, <3>1 DEF Active
  <2> QED BY <1>2, <1>6, <2>2 DEF Active, n
<1> QED BY <1>5, <1>6

LEMMA StackKeeps ==
    ASSUME NEW ranges, Sorted(ranges), NEW s, s = SortedEvents(ranges), NEW k \in 1 .. Len(s),
           NEW w, StackOK(ranges, s, w, k - 1)
    PROVE  StackOK(ranges, s, Sweep(ranges, w, s[k]), k)
<1> DEFINE ev == s[k]
           n == ev.idx
           len == Len(ranges)
           old == Active(ranges, s, k - 1)
           active == Active(ranges, s, k)
           stack == IF ev.isStart THEN Append(w.stack, n) ELSE PopInactive(w.stack, active)
           top == PopInactive(stack, active)
           swept == Sweep(ranges, w, ev)
<1>1. /\ len \in Nat /\ k \in Nat /\ k > 0 /\ n \in 1 .. len
      /\ ev.isStart => ev = Begin(ranges, n)
  <2>1. ev \in Events(ranges) /\ Len(s) \in Nat
    BY EventsInOrder
  <2> QED BY <2>1, EventFacts, SortedFacts
<1>2. /\ w.active = old /\ Rising(w.stack, len) /\ Has(w.stack, old)
      /\ \A i \in 1 .. Len(w.stack) : \E j \in 1 .. k - 1 : s[j] = Begin(ranges, w.stack[i])
  BY DEF StackOK
<1>3. active = IF ev.isStart THEN old \cup {n} ELSE old \ {n}
  BY ActiveSteps
<1>4. /\ swept.active = active /\ swept.stack = stack /\ swept.lastPos = ev.pos
      /\ swept.shown = IF top = << >> THEN NoCapture ELSE ranges[Last(top)].capture
  <2>1. active = IF ev.isStart THEN w.active \cup {n} ELSE w.active \ {n}
    BY <1>2, <1>3
  <2> HIDE DEF active
  <2> QED BY <2>1, Zenon DEF Sweep
<1>5. active \in SUBSET (1 .. len) /\ old \in SUBSET (1 .. len)
  BY DEF Active
<1> HIDE DEF active, old, n, len, ev
<1>6. /\ Rising(stack, len) /\ Has(stack, active)
      /\ \A i \in 1 .. Len(stack) : \E j \in 1 .. k : s[j] = Begin(ranges, stack[i])
  <2>1. CASE ev.isStart
    <3> DEFINE below == w.stack
               m == Len(below)
    <3>1. stack = Append(below, n) /\ below \in Seq(1 .. len) /\ m \in Nat
      BY <1>2, <2>1 DEF Rising
    <3>2. /\ stack \in Seq(1 .. len) /\ Len(stack) = m + 1 /\ stack[m + 1] = n
          /\ \A i \in 1 .. m : stack[i] = below[i] /\ below[i] \in 1 .. len
      <4> HIDE DEF below, stack
      <4> QED BY <1>1, <3>1, AppendProperties
    <3>3. ASSUME NEW i \in 1 .. m PROVE stack[i] < n
      <4>1. PICK j \in 1 .. k - 1 : s[j] = Begin(ranges, below[i])
        BY <1>2, <3>3
      <4>2. below[i] < n
        BY <1>1, <2>1, <3>2, <3>3, <4>1, BeginIsNext DEF ev, len
      <4> QED BY <3>2, <3>3, <4>2
    <3> HIDE DEF stack
    <3>4. \A i, j \in 1 .. m + 1 : i < j => stack[i] < stack[j]
      <4> TAKE i, j \in 1 .. m + 1
      <4> HAVE i < j
      <4>1. CASE j = m + 1
        <5>1. i \in 1 .. m
          BY <3>1, <4>1
        <5> QED BY <3>2, <3>3, <4>1, <5>1
      <4>2. CASE j # m + 1
        <5>1. i \in 1 .. m /\ j \in 1 .. m
          BY <3>1, <4>2
        <5> QED BY <1>2, <3>2, <5>1 DEF Rising
      <4> QED BY <4>1, <4>2
    <3>5. Rising(stack, len)
      BY <3>2, <3>4 DEF Rising
    <3>6. Has(stack, active)
      <4> SUFFICES ASSUME NEW i \in active PROVE \E j \in 1 .. m + 1 : stack[j] = i
        BY <3>2 DEF Has
      <4>1. CASE i = n
        BY <3>1, <3>2, <4>1
      <4>2. CASE i # n
        <5>1. PICK j \in 1 .. m : below[j] = i
          BY <1>2, <1>3, <2>1, <4>2 DEF Has
        <5> QED BY <3>1, <3>2, <5>1
      <4> QED BY <4>1, <4>2
    <3>7. \A i \in 1 .. m + 1 : \E j \in 1 .. k : s[j] = Begin(ranges, stack[i])
      <4> TAKE i \in 1 .. m + 1
      <4>1. CASE i = m + 1
        <5>1. k \in 1 .. k /\ s[k] = Begin(ranges, stack[i])
          BY <1>1, <2>1, <3>2, <4>1 DEF ev
        <5> QED BY <5>1
      <4>2. CASE i # m + 1
        <5>1. i \in 1 .. m
          BY <3>1, <4>2
        <5>2. PICK j \in 1 .. k - 1 : s[j] = Begin(ranges, below[i])
          BY <1>2, <5>1
        <5>3. j \in 1 .. k
          BY <1>1
        <5> QED BY <3>2, <5>1, <5>2, <5>3
      <4> QED BY <4>1, <4>2
    <3> QED BY <3>2, <3>5, <3>6, <3>7
  <2>2. CASE ~ ev.isStart
    <3>1. stack = PopInactive(w.stack, active) /\ Has(w.stack, active)
      BY <1>2, <1>3, <2>2 DEF Has
    <3> HIDE DEF stack
    <3>2. Rising(stack, len) /\ Has(stack, active) /\ Within(stack, w.stack)
      BY <1>1, <1>2, <1>5, <3>1, PopTakesTheRest
    <3>3. ASSUME NEW i \in 1 .. Len(stack) PROVE \E j \in 1 .. k : s[j] = Begin(ranges, stack[i])
      <4>1. PICK h \in 1 .. Len(w.stack) : stack[i] = w.stack[h]
        BY <3>2, <3>3 DEF Within
      <4>2. PICK j \in 1 .. k - 1 : s[j] = Begin(ranges, w.stack[h])
        BY <1>2
      <4>3. j \in 1 .. k
        BY <1>1
      <4> QED BY <4>1, <4>2, <4>3
    <3> QED BY <3>2, <3>3
  <2> QED BY <2>1, <2>2
<1> HIDE DEF stack
<1>7. IsTop(ranges, active, swept.shown)
  <2>1. /\ top = << >> <=> active = {}
        /\ top # << >> => Last(top) \in active /\ \A i \in active : i <= Last(top)
    BY <1>1, <1>5, <1>6, PopTakesTheRest
  <2> QED BY <1>4, <2>1 DEF IsTop
<1> HIDE DEF swept
<1>8. StackOK(ranges, s, swept, k)
  BY <1>1, <1>4, <1>6, <1>7 DEF StackOK, active, len, ev
<1> QED BY <1>8 DEF swept, ev

LEMMA TopIsNamed ==
    ASSUME NEW ranges, Sorted(ranges), NEW is \in SUBSET (1 .. Len(ranges)), NEW name,
           IsTop(ranges, is, name)
    PROVE  /\ name \in CaptureNames \cup {NoCapture}
           /\ name = NoCapture <=> is = {}
<1>1. NoCapture \notin CaptureNames
  BY DEF NoCapture, CaptureNames
<1>2. \A i \in is : ranges[i].capture \in CaptureNames
  BY SortedFacts
<1>3. CASE is = {}
  BY <1>3 DEF IsTop
<1>4. CASE is # {}
  <2>1. name \in CaptureNames
    BY <1>2, <1>4 DEF IsTop
  <2> QED BY <1>1, <1>4, <2>1
<1> QED BY <1>3, <1>4

\* What covers no byte at b leaves b as it was.
LEMMA AppendElsewhere ==
    ASSUME NEW ranges, NEW result \in Seq(Segment), NEW seg \in Segment, NEW b \in Nat,
           ~ Covers(seg, b), ShowsAt(ranges, result, b)
    PROVE  ShowsAt(ranges, Append(result, seg), b)
<1> DEFINE m == Len(result)
           longer == Append(result, seg)
<1>1. /\ m \in Nat /\ DOMAIN result = 1 .. m /\ DOMAIN longer = 1 .. m + 1
      /\ longer[m + 1] = seg /\ \A k \in 1 .. m : longer[k] = result[k]
  <2>1. longer \in Seq(Segment) /\ Len(longer) = m + 1
    BY AppendProperties
  <2> QED BY <2>1, AppendProperties
<1> HIDE DEF longer, m
<1>2. {k \in DOMAIN longer : Covers(longer[k], b)} = {k \in DOMAIN result : Covers(result[k], b)}
  <2>1. \A k : k \in 1 .. m + 1 <=> k \in 1 .. m \/ k = m + 1
    BY <1>1
  <2>2. \A k \in DOMAIN longer : Covers(longer[k], b) <=> k \in 1 .. m /\ Covers(result[k], b)
    BY <1>1, <2>1
  <2> QED BY <1>1, <2>1, <2>2
<1>3. \A k \in {k \in DOMAIN result : Covers(result[k], b)} : longer[k] = result[k]
  BY <1>1
<1> DEFINE here == {k \in DOMAIN result : Covers(result[k], b)}
<1>4. /\ At(ranges, b) = {} => here = {}
      /\ At(ranges, b) # {} =>
           \E k \in here : here = {k} /\ IsTop(ranges, At(ranges, b), result[k].capture)
  BY DEF ShowsAt
<1>5. ShowsAt(ranges, longer, b)
  <2> HIDE DEF here
  <2>1. here = {k \in DOMAIN longer : Covers(longer[k], b)} /\ \A k \in here : longer[k] = result[k]
    BY <1>2, <1>3 DEF here
  <2> QED BY <1>4, <2>1 DEF ShowsAt
<1> QED BY <1>5 DEF longer

LEMMA ResultKeeps ==
    ASSUME NEW ranges, Sorted(ranges), NEW s, s = SortedEvents(ranges), NEW k \in 1 .. Len(s),
           NEW w, StackOK(ranges, s, w, k - 1), ResultOK(ranges, w)
    PROVE  ResultOK(ranges, Sweep(ranges, w, s[k]))
<1> DEFINE pos == s[k].pos
           last == w.lastPos
           r == w.result
           seg == [start |-> last, stop |-> pos, capture |-> w.shown]
           swept == Sweep(ranges, w, s[k])
<1>1. /\ Len(s) \in Nat /\ \A j \in 1 .. Len(s) : s[j].pos \in Nat
      /\ k > 1 => k - 1 \in 1 .. Len(s) /\ EventBefore(s[k - 1], s[k]) /\ s[k - 1].pos <= s[k].pos
  <2>1. /\ Len(s) \in Nat /\ \A j \in 1 .. Len(s) : s[j] \in Events(ranges)
        /\ \A i, j \in 1 .. Len(s) : i < j => EventBefore(s[i], s[j])
    BY EventsInOrder
  <2>2. \A j \in 1 .. Len(s) : s[j].pos \in Nat
    BY <2>1, EventFacts
  <2>3. ASSUME k > 1 PROVE k - 1 \in 1 .. Len(s) /\ EventBefore(s[k - 1], s[k])
    <3>1. k - 1 \in 1 .. Len(s) /\ k - 1 < k
      BY <2>1, <2>3
    <3> QED BY <2>1, <3>1
  <2>4. k > 1 => s[k - 1].pos <= s[k].pos
    BY <2>1, <2>3, OrderOfEvents
  <2> QED BY <2>1, <2>2, <2>3, <2>4
<1>2. last \in Nat /\ pos \in Nat /\ last <= pos /\ k \in Nat
  <2>1. last = IF k - 1 = 0 THEN 0 ELSE s[k - 1].pos
    BY DEF StackOK
  <2> QED BY <1>1, <2>1
<1>3. ASSUME NEW b \in Nat, last <= b, b < pos PROVE At(ranges, b) = w.active
  <2>1. k - 1 \in 0 .. Len(s) /\ (k - 1) + 1 = k
    BY <1>1
  <2>2. k - 1 > 0 => s[k - 1].pos <= b
    BY <1>2, <1>3 DEF StackOK
  <2>3. At(ranges, b) = Active(ranges, s, k - 1)
    BY <1>3, <2>1, <2>2, ActiveCovers
  <2> QED BY <2>3 DEF StackOK
<1>4. /\ w.active \in SUBSET (1 .. Len(ranges)) /\ IsTop(ranges, w.active, w.shown)
      /\ w.shown \in CaptureNames \cup {NoCapture} /\ (w.shown = NoCapture <=> w.active = {})
  <2>1. w.active \in SUBSET (1 .. Len(ranges)) /\ IsTop(ranges, w.active, w.shown)
    BY DEF StackOK, Active
  <2> QED BY <2>1, TopIsNamed
<1>5. /\ r \in Seq(Segment)
      /\ \A b \in Nat : IF b < last THEN ShowsAt(ranges, r, b)
                        ELSE \A i \in DOMAIN r : ~ Covers(r[i], b)
  BY DEF ResultOK, ShownUpTo
<1>6. swept.lastPos = pos /\ swept.result = FlushSegment(w, pos)
  BY DEF Sweep
<1> HIDE DEF swept
<1>7. CASE last < pos /\ w.shown # NoCapture
  <2>1. swept.result = Append(r, seg)
    BY <1>2, <1>6, <1>7 DEF FlushSegment
  <2>2. seg \in Segment
    BY <1>2, <1>4, <1>7 DEF Segment
  <2>3. /\ seg.start = last /\ seg.stop = pos /\ seg.capture = w.shown
        /\ \A b \in Nat : Covers(seg, b) <=> last <= b /\ b < pos
    BY DEF Covers
  <2> DEFINE m == Len(r)
             longer == Append(r, seg)
  <2> HIDE DEF seg
  <2>4. /\ m \in Nat /\ DOMAIN r = 1 .. m /\ longer \in Seq(Segment) /\ DOMAIN longer = 1 .. m + 1
        /\ longer[m + 1] = seg /\ \A i \in 1 .. m : longer[i] = r[i]
    <3>1. m \in Nat /\ DOMAIN r = 1 .. m
      BY <1>5
    <3>2. /\ longer \in Seq(Segment) /\ Len(longer) = m + 1
          /\ longer[m + 1] = seg /\ \A i \in 1 .. m : longer[i] = r[i]
      BY <1>5, <2>2, AppendProperties
    <3> QED BY <3>1, <3>2
  <2>5. ASSUME NEW b \in Nat, b < last PROVE ShowsAt(ranges, longer, b)
    <3>1. ~ Covers(seg, b) /\ ShowsAt(ranges, r, b)
      BY <1>2, <1>5, <2>3, <2>5
    <3> QED BY <1>5, <2>2, <3>1, AppendElsewhere
  <2> HIDE DEF longer, m
  <2>6. \A i : i \in 1 .. m + 1 <=> i \in 1 .. m \/ i = m + 1
    BY <2>4
  <2>7. ASSUME NEW b \in Nat, last <= b, b < pos PROVE ShowsAt(ranges, longer, b)
    <3>1. \A i \in 1 .. m : ~ Covers(longer[i], b)
      <4>1. ~ (b < last)
        BY <1>2, <2>7
      <4>2. \A i \in DOMAIN r : ~ Covers(r[i], b)
        BY <1>5, <4>1
      <4> QED BY <2>4, <4>2
    <3>2. {i \in DOMAIN longer : Covers(longer[i], b)} = {m + 1}
      BY <2>3, <2>4, <2>6, <2>7, <3>1
    <3>3. At(ranges, b) = w.active /\ w.active # {} /\ longer[m + 1].capture = w.shown
      BY <1>3, <1>4, <1>7, <2>3, <2>4, <2>7
    <3> QED BY <1>4, <3>2, <3>3 DEF ShowsAt
  <2>8. ASSUME NEW b \in Nat, pos <= b PROVE \A i \in DOMAIN longer : ~ Covers(longer[i], b)
    <3>1. ~ (b < last) /\ ~ (b < pos)
      BY <1>2, <2>8
    <3> QED BY <1>5, <2>3, <2>4, <2>6, <2>8, <3>1
  <2>9. \A b \in Nat : IF b < pos THEN ShowsAt(ranges, longer, b)
                       ELSE \A i \in DOMAIN longer : ~ Covers(longer[i], b)
    <3> TAKE b \in Nat
    <3>1. CASE b < pos
      <4>1. b < last \/ last <= b
        BY <1>2
      <4> QED BY <2>5, <2>7, <3>1, <4>1
    <3>2. CASE ~ (b < pos)
      <4>1. pos <= b
        BY <1>2, <3>2
      <4> QED BY <2>8, <3>2, <4>1
    <3> QED BY <3>1, <3>2
  <2>10. ShownUpTo(ranges, longer, pos)
    BY <2>4, <2>9 DEF ShownUpTo
  <2> QED BY <1>6, <2>1, <2>10 DEF ResultOK, longer, swept
<1>8. CASE ~ (last < pos /\ w.shown # NoCapture)
  <2>1. swept.result = r
    BY <1>2, <1>6, <1>8 DEF FlushSegment
  <2>2. ASSUME NEW b \in Nat, b < pos PROVE ShowsAt(ranges, r, b)
    <3>1. CASE b < last
      BY <1>5, <3>1
    <3>2. CASE ~ (b < last)
      <4>1. last <= b /\ last < pos
        BY <1>2, <2>2, <3>2
      <4>2. At(ranges, b) = {}
        BY <1>3, <1>4, <1>8, <2>2, <4>1
      <4>3. {i \in DOMAIN r : Covers(r[i], b)} = {}
        BY <1>5, <3>2
      <4> QED BY <4>2, <4>3 DEF ShowsAt
    <3> QED BY <3>1, <3>2
  <2>3. ASSUME NEW b \in Nat, ~ (b < pos) PROVE \A i \in DOMAIN r : ~ Covers(r[i], b)
    <3>1. ~ (b < last)
      BY <1>2, <2>3
    <3> QED BY <1>5, <3>1
  <2>4. \A b \in Nat : IF b < pos THEN ShowsAt(ranges, r, b)
                       ELSE \A i \in DOMAIN r : ~ Covers(r[i], b)
    BY <2>2, <2>3
  <2>5. ShownUpTo(ranges, r, pos)
    BY <1>5, <2>4 DEF ShownUpTo
  <2> QED BY <1>6, <2>1, <2>5 DEF ResultOK, swept
<1> QED BY <1>7, <1>8

SweepOK(ranges, s, w, k) == StackOK(ranges, s, w, k) /\ ResultOK(ranges, w)

LEMMA SweepIsTyped ==
    ASSUME NEW ranges, Sorted(ranges), NEW s, s = SortedEvents(ranges), NEW k \in 1 .. Len(s),
           NEW w, SweepOK(ranges, s, Sweep(ranges, w, s[k]), k)
    PROVE  Sweep(ranges, w, s[k]) \in Sweeps
<1> DEFINE swept == Sweep(ranges, w, s[k])
<1>1. /\ swept.active \in SUBSET (1 .. Len(ranges)) /\ swept.stack \in Seq(1 .. Len(ranges))
      /\ IsTop(ranges, swept.active, swept.shown) /\ swept.result \in Seq(Segment)
  BY DEF SweepOK, StackOK, ResultOK, ShownUpTo, Rising, Active
<1>2. swept.shown \in CaptureNames \cup {NoCapture}
  BY <1>1, TopIsNamed
<1>3. swept.lastPos \in Nat
  <2>1. s[k] \in Events(ranges)
    BY EventsInOrder
  <2>2. s[k].pos \in Nat
    BY <2>1, EventFacts
  <2> QED BY <2>2 DEF Sweep
<1>4. swept.active \in SUBSET Nat /\ swept.stack \in Seq(Nat)
  BY <1>1
<1>5. swept = [active |-> swept.active, stack |-> swept.stack, lastPos |-> swept.lastPos,
               shown |-> swept.shown, result |-> swept.result]
  BY DEF Sweep
<1> HIDE DEF swept
<1>6. swept \in Sweeps
  BY <1>1, <1>2, <1>3, <1>4, <1>5 DEF Sweeps
<1> QED BY <1>6 DEF swept

\* Whatever the ranges, resolveOverlaps shows at every byte the last of the
\* ranges there, once.
LEMMA ResolveShowsTheLast ==
    ASSUME NEW ranges, Sorted(ranges)
    PROVE  /\ ResolveOverlaps(ranges) \in Seq(Segment)
           /\ \A b \in Nat : ShowsAt(ranges, ResolveOverlaps(ranges), b)
<1> DEFINE s == SortedEvents(ranges)
           m == Len(s)
           Start == [active |-> {}, stack |-> << >>, lastPos |-> 0, shown |-> NoCapture,
                     result |-> << >>]
           S == {w \in Sweeps : \E k \in 0 .. m : SweepOK(ranges, s, w, k)}
           t == [k \in 1 .. m |-> [w \in S |->
                  IF SweepOK(ranges, s, w, k - 1) THEN Sweep(ranges, w, s[k]) ELSE w]]
           after[k \in 0 .. m] == IF k = 0 THEN Start ELSE Sweep(ranges, after[k - 1], s[k])
<1>1. /\ m \in Nat /\ m > 0 /\ \A j \in 1 .. m : s[j] \in Events(ranges)
      /\ \A e \in Events(ranges) : \E j \in 1 .. m : s[j] = e
      /\ \A i, j \in 1 .. m : i < j => EventBefore(s[i], s[j])
  BY EventsInOrder
<1>2. SweepOK(ranges, s, Start, 0) /\ Start \in Sweeps
  <2>1. Active(ranges, s, 0) = {}
    BY DEF Active
  <2>2. /\ Start.active = {} /\ Start.stack = << >> /\ Start.lastPos = 0
        /\ Start.shown = NoCapture /\ Start.result = << >>
    OBVIOUS
  <2>3. Start \in Sweeps
    BY DEF Sweeps
  <2> HIDE DEF Start, s
  <2>4. Rising(<< >>, Len(ranges)) /\ Has(<< >>, {})
    BY DEF Rising, Has
  <2>5. IsTop(ranges, {}, NoCapture)
    BY DEF IsTop
  <2>6. StackOK(ranges, s, Start, 0)
    BY <2>1, <2>2, <2>4, <2>5 DEF StackOK
  <2>7. ShownUpTo(ranges, << >>, 0)
    <3>1. << >> \in Seq(Segment) /\ DOMAIN << >> = {} /\ \A b \in Nat : ~ (b < 0)
      OBVIOUS
    <3> QED BY <3>1 DEF ShownUpTo
  <2> QED BY <2>2, <2>3, <2>6, <2>7 DEF SweepOK, ResultOK
<1>3. ASSUME NEW k \in 1 .. m, NEW w, SweepOK(ranges, s, w, k - 1)
      PROVE  SweepOK(ranges, s, Sweep(ranges, w, s[k]), k) /\ Sweep(ranges, w, s[k]) \in Sweeps
  <2>1. SweepOK(ranges, s, Sweep(ranges, w, s[k]), k)
    BY <1>3, StackKeeps, ResultKeeps DEF SweepOK
  <2> QED BY <1>3, <2>1, SweepIsTyped
<1>4. t \in [1 .. m -> [S -> S]]
  <2>1. ASSUME NEW k \in 1 .. m, NEW w \in S, SweepOK(ranges, s, w, k - 1)
        PROVE  Sweep(ranges, w, s[k]) \in S
    <3>1. k \in 0 .. m
      BY <1>1, <2>1
    <3> QED BY <1>3, <2>1, <3>1
  <2> HIDE DEF S, m, s
  <2> QED BY <2>1
<1>5. Start \in S
  <2>1. 0 \in 0 .. m
    BY <1>1
  <2> HIDE DEF Start, m, s
  <2> QED BY <1>2, <2>1
<1> HIDE DEF S, t, m, s, Start
<1>6. Steps(S, Start, t, m)
  BY <1>1, <1>4, <1>5, StepsExist
<1>7. PICK g \in [0 .. m -> S] : g[0] = Start /\ \A k \in 1 .. m : g[k] = t[k][g[k - 1]]
  BY <1>6, Zenon DEF Steps
<1>8. \A k \in 0 .. m : SweepOK(ranges, s, g[k], k)
  <2> DEFINE T == {k \in 0 .. m : SweepOK(ranges, s, g[k], k)}
  <2>1. 0 \in T
    BY <1>1, <1>2, <1>7
  <2>2. \A k \in 1 .. m : k - 1 \in T => k \in T
    <3> TAKE k \in 1 .. m
    <3> HAVE k - 1 \in T
    <3>1. SweepOK(ranges, s, g[k - 1], k - 1) /\ k - 1 \in 0 .. m /\ k \in 0 .. m
      BY <1>1
    <3>2. g[k] = Sweep(ranges, g[k - 1], s[k])
      <4>1. g[k - 1] \in S
        BY <3>1
      <4>2. t[k][g[k - 1]] = Sweep(ranges, g[k - 1], s[k])
        BY <3>1, <4>1 DEF t
      <4> QED BY <1>7, <4>2
    <3> QED BY <1>3, <3>1, <3>2
  <2> HIDE DEF T
  <2>3. 0 .. m \subseteq T
    BY <1>1, <2>1, <2>2, UpTo
  <2> QED BY <2>3 DEF T
<1>9. g = [k \in 0 .. m |-> IF k = 0 THEN Start ELSE Sweep(ranges, g[k - 1], s[k])]
  <2>1. ASSUME NEW k \in 1 .. m PROVE g[k] = Sweep(ranges, g[k - 1], s[k])
    <3>1. k - 1 \in 0 .. m
      BY <1>1
    <3>2. g[k - 1] \in S /\ SweepOK(ranges, s, g[k - 1], k - 1)
      BY <1>8, <3>1
    <3>3. t[k][g[k - 1]] = Sweep(ranges, g[k - 1], s[k])
      BY <3>2 DEF t
    <3> QED BY <1>7, <3>3
  <2> QED BY <1>1, <1>7, <2>1
<1>10. after = [k \in 0 .. m |-> IF k = 0 THEN Start ELSE Sweep(ranges, after[k - 1], s[k])]
  BY <1>9, Zenon
<1>11. ResolveOverlaps(ranges) = after[m].result
  BY DEF ResolveOverlaps, s, m, Start
<1> HIDE DEF after
<1>12. \A k \in 0 .. m : SweepOK(ranges, s, after[k], k)
  <2> DEFINE T == {k \in 0 .. m : SweepOK(ranges, s, after[k], k)}
  <2>1. 0 \in T
    BY <1>1, <1>2, <1>10
  <2>2. \A k \in 1 .. m : k - 1 \in T => k \in T
    <3> TAKE k \in 1 .. m
    <3> HAVE k - 1 \in T
    <3>1. SweepOK(ranges, s, after[k - 1], k - 1) /\ k \in 0 .. m /\ k # 0
      BY <1>1
    <3>2. after[k] = Sweep(ranges, after[k - 1], s[k])
      BY <1>10, <3>1
    <3> QED BY <1>3, <3>1, <3>2
  <2> HIDE DEF T
  <2>3. 0 .. m \subseteq T
    BY <1>1, <2>1, <2>2, UpTo
  <2> QED BY <2>3 DEF T
<1> DEFINE result == ResolveOverlaps(ranges)
<1>13. ShownUpTo(ranges, result, s[m].pos)
  <2>1. m \in 0 .. m /\ m # 0
    BY <1>1
  <2>2. SweepOK(ranges, s, after[m], m)
    BY <1>12, <2>1
  <2> QED BY <1>11, <2>1, <2>2 DEF SweepOK, StackOK, ResultOK
<1> HIDE DEF result
<1>14. ASSUME NEW b \in Nat PROVE ShowsAt(ranges, result, b)
  <2>1. CASE b < s[m].pos
    BY <1>13, <2>1 DEF ShownUpTo
  <2>2. CASE ~ (b < s[m].pos)
    <3>1. \A i \in 1 .. Len(ranges) : ~ Covers(ranges[i], b)
      <4> TAKE i \in 1 .. Len(ranges)
      <4>1. End(ranges, i) \in Events(ranges) /\ End(ranges, i).pos = ranges[i].stop
        BY EventsAre
      <4>2. PICK j \in 1 .. m : s[j] = End(ranges, i)
        BY <1>1, <4>1
      <4>3. j = m \/ EventBefore(s[j], s[m])
        BY <1>1
      <4>4. s[m] \in Events(ranges) /\ s[m].pos \in Nat
        BY <1>1, EventFacts
      <4>5. s[j].pos <= s[m].pos
        BY <1>1, <4>3, <4>4, OrderOfEvents
      <4>6. ranges[i].stop \in Nat
        BY SortedFacts
      <4> QED BY <2>2, <4>1, <4>2, <4>4, <4>5, <4>6 DEF Covers
    <3>2. At(ranges, b) = {}
      BY <3>1, SortedFacts DEF At
    <3>3. {i \in DOMAIN result : Covers(result[i], b)} = {}
      BY <1>13, <2>2 DEF ShownUpTo
    <3> QED BY <3>2, <3>3 DEF ShowsAt
  <2> QED BY <2>1, <2>2
<1> QED BY <1>13, <1>14 DEF ShownUpTo, result
-----------------------------------------------------------------------------
\* The ranges captured are those of nodes, so they nest.

LEMMA FlattenIsTyped ==
    ASSUME NEW S, NEW seqs \in Seq(Seq(S))
    PROVE  FlattenSeq(seqs) \in Seq(S)
<1> DEFINE n == Len(seqs)
           Q == Seq(S)
           step == [k \in 1 .. n - 1 |-> [q \in Q |-> q \o seqs[k + 1]]]
           flatten[i \in 1 .. Len(seqs)] ==
             IF i = 1 THEN seqs[i] ELSE flatten[i - 1] \o seqs[i]
<1>1. CASE n = 0
  <2>1. FlattenSeq(seqs) = << >>
    BY <1>1 DEF FlattenSeq
  <2> QED BY <2>1
<1>2. CASE n # 0
  <2>1. n \in Nat /\ n > 0 /\ n - 1 \in Nat /\ \A k \in 1 .. n : seqs[k] \in Q
    BY <1>2
  <2>2. step \in [1 .. n - 1 -> [Q -> Q]]
    <3>1. \A k \in 1 .. n - 1 : \A q \in Q : q \o seqs[k + 1] \in Q
      <4> TAKE k \in 1 .. n - 1
      <4> TAKE q \in Q
      <4>1. seqs[k + 1] \in Seq(S) /\ q \in Seq(S)
        BY <2>1
      <4> QED BY <4>1, ConcatProperties
    <3> QED BY <3>1
  <2>3. Steps(Q, seqs[1], step, n - 1)
    <3>1. seqs[1] \in Q
      BY <2>1
    <3> HIDE DEF step, n, Q
    <3> QED BY <2>1, <2>2, <3>1, StepsExist
  <2>4. PICK h \in [0 .. n - 1 -> Q] :
           h[0] = seqs[1] /\ \A k \in 1 .. n - 1 : h[k] = step[k][h[k - 1]]
    BY <2>3, Zenon DEF Steps
  <2>5. \A k \in 1 .. n - 1 : h[k] = h[k - 1] \o seqs[k + 1]
    <3> TAKE k \in 1 .. n - 1
    <3>1. k - 1 \in 0 .. n - 1
      BY <2>1
    <3>2. h[k - 1] \in Q
      <4> HIDE DEF Q, n
      <4> QED BY <3>1
    <3>3. step[k] = [q \in Q |-> q \o seqs[k + 1]]
      OBVIOUS
    <3>4. h[k] = step[k][h[k - 1]]
      BY <2>4
    <3> QED BY <3>2, <3>3, <3>4
  <2> DEFINE g == [k \in 1 .. n |-> h[k - 1]]
  <2>6. g \in [1 .. n -> Q] /\ g[1] = seqs[1]
    BY <2>1, <2>4
  <2>7. \A k \in 2 .. n : g[k] = g[k - 1] \o seqs[k]
    <3> TAKE k \in 2 .. n
    <3>1. k - 1 \in 1 .. n - 1 /\ (k - 1) + 1 = k /\ k \in 1 .. n /\ k - 1 \in 1 .. n
      BY <2>1
    <3>2. h[k - 1] = h[(k - 1) - 1] \o seqs[(k - 1) + 1]
      BY <2>5, <3>1
    <3>3. g[k] = h[k - 1] /\ g[k - 1] = h[(k - 1) - 1]
      BY <3>1
    <3> HIDE DEF g
    <3> QED BY <3>1, <3>2, <3>3
  <2> HIDE DEF g
  <2>8. g = [i \in 1 .. Len(seqs) |-> IF i = 1 THEN seqs[i] ELSE g[i - 1] \o seqs[i]]
    BY <2>1, <2>6, <2>7
  <2>9. flatten = [i \in 1 .. Len(seqs) |-> IF i = 1 THEN seqs[i] ELSE flatten[i - 1] \o seqs[i]]
    BY <2>8, Zenon
  <2>10. FlattenSeq(seqs) = flatten[n]
    BY <2>1 DEF FlattenSeq
  <2> HIDE DEF flatten
  <2> DEFINE T == {k \in 0 .. n - 1 : flatten[k + 1] \in Q}
  <2>11. 0 \in T
    BY <2>1, <2>9
  <2>12. \A k \in 1 .. n - 1 : k - 1 \in T => k \in T
    <3> TAKE k \in 1 .. n - 1
    <3> HAVE k - 1 \in T
    <3>1. k + 1 \in 1 .. n /\ k + 1 # 1 /\ (k + 1) - 1 = k /\ (k - 1) + 1 = k
      BY <2>1
    <3>2. flatten[k] \in Seq(S) /\ seqs[k + 1] \in Seq(S)
      BY <2>1, <3>1
    <3>3. flatten[k + 1] = flatten[k] \o seqs[k + 1]
      BY <2>9, <3>1
    <3>4. flatten[k + 1] \in Q
      BY <3>2, <3>3, ConcatProperties
    <3> QED BY <3>4
  <2>13. 0 .. n - 1 \subseteq T
    <3> HIDE DEF T
    <3> QED BY <2>1, <2>11, <2>12, UpTo
  <2>14. n - 1 \in T /\ (n - 1) + 1 = n
    <3> HIDE DEF T
    <3> QED BY <2>1, <2>13
  <2> QED BY <2>10, <2>14
<1> QED BY <1>1, <1>2

LEMMA SpanFacts ==
    ASSUME AtCase
    PROVE  /\ DOMAIN doc.stop = DOMAIN doc.kids
           /\ \A n \in DOMAIN doc.kids : doc.start[n] \in Nat /\ doc.stop[n] \in Nat
<1>1. PICK c \in Cases : doc = c.doc
  BY DEF AtCase
<1>2. doc.start \in [DOMAIN doc.kids -> Nat] /\ doc.stop \in [DOMAIN doc.kids -> Nat]
  BY <1>1, SpansAreBytes
<1> QED BY <1>2

NotEmpty == {r \in Ranged : r.start # r.stop}

LEMMA CapturedAreNotEmpty ==
    ASSUME AtCase, found \in Seq(Match)
    PROVE  CapturedRanges \in Seq(NotEmpty)
<1>1. ASSUME NEW c \in Capture PROVE RangeOf(c) \in Seq(NotEmpty)
  <2>1. c.node \in DOMAIN doc.kids /\ c.name \in CaptureNames
    BY <1>1 DEF Capture
  <2> DEFINE first == doc.start[c.node]
             last == doc.stop[c.node]
             r == [start |-> first, stop |-> last, capture |-> c.name]
  <2>2. first \in Nat /\ last \in Nat
    BY <2>1, SpanFacts
  <2>3. r.start = first /\ r.stop = last /\ r.capture = c.name
    OBVIOUS
  <2>4. r \in Ranged
    <3> HIDE DEF first, last
    <3> QED BY <2>1, <2>2 DEF Ranged
  <2> HIDE DEF r
  <2>5. first # last => r \in NotEmpty
    BY <2>3, <2>4 DEF NotEmpty
  <2>6. RangeOf(c) = IF first = last THEN << >> ELSE <<r>>
    BY DEF RangeOf, r
  <2> QED BY <2>5, <2>6
<1>2. ASSUME NEW match \in Match PROVE RangesOf(match) \in Seq(NotEmpty)
  <2>1. match.caps \in Seq(Capture)
    BY <1>2 DEF Match
  <2> DEFINE caps == match.caps
             parts == [j \in DOMAIN caps |-> RangeOf(caps[j])]
  <2>2. \A j \in 1 .. Len(caps) : RangeOf(caps[j]) \in Seq(NotEmpty)
    BY <1>1, <2>1
  <2>3. parts \in Seq(Seq(NotEmpty))
    <3> HIDE DEF caps
    <3>1. Len(caps) \in Nat /\ DOMAIN caps = 1 .. Len(caps)
      BY <2>1 DEF caps
    <3> QED BY <2>2, <3>1
  <2>4. RangesOf(match) = FlattenSeq(parts)
    BY DEF RangesOf
  <2> HIDE DEF parts
  <2> QED BY <2>3, <2>4, FlattenIsTyped
<1> DEFINE parts == [i \in DOMAIN found |-> RangesOf(found[i])]
<1>3. parts \in Seq(Seq(NotEmpty))
  <2>1. Len(found) \in Nat /\ DOMAIN found = 1 .. Len(found)
    OBVIOUS
  <2>2. \A i \in 1 .. Len(found) : RangesOf(found[i]) \in Seq(NotEmpty)
    BY <1>2, <2>1
  <2> QED BY <2>1, <2>2
<1>4. CapturedRanges = FlattenSeq(parts)
  BY DEF CapturedRanges
<1> HIDE DEF parts
<1> QED BY <1>3, <1>4, FlattenIsTyped

NarrowLast(ranges) ==
    \A i, j \in 1 .. Len(ranges) : i < j =>
        (ranges[i].start = ranges[j].start => ranges[j].stop <= ranges[i].stop)

\* None of them turned, they come by their starts and the wider first.
LEMMA SortedRangesAre ==
    ASSUME NEW captured \in Seq(NotEmpty), \A r \in ToSet(captured) : ~ Turned(r),
           NEW ranges \in SortedRanges(captured), ranges # << >>
    PROVE  Sorted(ranges) /\ NarrowLast(ranges) /\ ToSet(ranges) = ToSet(captured)
<1> DEFINE len == Len(captured)
           D == 1 .. len
<1>1. len \in Nat /\ DOMAIN captured = D /\ \A i \in D : captured[i] \in NotEmpty
  OBVIOUS
<1>2. PICK o \in [D -> D] : /\ SortedBy(captured, o) /\ \A i \in D : \E j \in D : o[j] = i
                            /\ ranges = [i \in D |-> captured[o[i]]]
  <2> DEFINE C == DOMAIN captured
             orders == {o \in [C -> C] : SortedBy(captured, o) /\ \A i \in C : \E j \in C : o[j] = i}
  <2>1. SortedRanges(captured) = {[i \in C |-> captured[order[i]]] : order \in orders}
    BY Zenon DEF SortedRanges
  <2>2. PICK o \in orders : ranges = [i \in C |-> captured[o[i]]]
    BY <2>1
  <2>3. C = D
    BY <1>1
  <2> QED BY <2>2, <2>3
<1> HIDE DEF D
<1>3. \A i \in D : ranges[i] \in NotEmpty /\ o[i] \in D
  BY <1>1, <1>2
<1>4. ranges \in Seq(NotEmpty) /\ Len(ranges) = len /\ DOMAIN ranges = D
  BY <1>1, <1>2, <1>3 DEF D
<1>5. \A r \in NotEmpty : r \in Ranged /\ r.start \in Nat /\ r.stop \in Nat /\ r.start # r.stop
  BY DEF NotEmpty, Ranged
<1>10. \A i \in D : ~ Turned(captured[i])
  BY <1>1 DEF ToSet
<1>11. \A i \in D : ranges[i].start < ranges[i].stop
  <2> TAKE i \in D
  <2>1. ranges[i] = captured[o[i]] /\ o[i] \in D
    BY <1>2, <1>3
  <2>2. ~ (ranges[i].stop < ranges[i].start)
    BY <1>10, <2>1 DEF Turned
  <2>3. ranges[i].start \in Nat /\ ranges[i].stop \in Nat /\ ranges[i].start # ranges[i].stop
    BY <1>3, <1>5
  <2> QED BY <2>2, <2>3
<1>6. \A i, j \in D : i < j => /\ ranges[i].start <= ranges[j].start
                               /\ ranges[i].start = ranges[j].start => ranges[j].stop <= ranges[i].stop
  <2> TAKE i, j \in D
  <2> HAVE i < j
  <2>1. ranges[i] = captured[o[i]] /\ ranges[j] = captured[o[j]]
    BY <1>2
  <2>2. ~ Precedes(ranges[j], ranges[i])
    BY <1>2, <2>1 DEF SortedBy
  <2>3. /\ ranges[i].start \in Nat /\ ranges[j].start \in Nat
        /\ ranges[i].stop \in Nat /\ ranges[j].stop \in Nat
    BY <1>3, <1>5
  <2>4. ~ Turned(ranges[i]) /\ ~ Turned(ranges[j])
    BY <1>3, <1>10, <2>1
  <2>5. ~ (ranges[i].stop < ranges[i].start) /\ ~ (ranges[j].stop < ranges[j].start)
    BY <2>4 DEF Turned
  <2>6. Wider(ranges[j], ranges[i]) <=> ranges[j].stop > ranges[i].stop
    BY <2>3, <2>5 DEF Wider, Turned
  <2>7. /\ ~ (ranges[j].start < ranges[i].start)
        /\ ranges[j].start = ranges[i].start => ~ Wider(ranges[j], ranges[i])
    BY <2>2 DEF Precedes
  <2> QED BY <2>3, <2>6, <2>7
<1>7. Sorted(ranges)
  <2>1. ranges \in Seq(Ranged)
    BY <1>4, <1>5
  <2> QED BY <1>4, <1>6, <1>11, <2>1 DEF Sorted
<1>8. NarrowLast(ranges)
  BY <1>4, <1>6 DEF NarrowLast, D
<1>9. ToSet(ranges) = ToSet(captured)
  <2>1. \A i \in D : ranges[i] = captured[o[i]]
    BY <1>2
  <2>2. \A i \in D : \E j \in D : captured[i] = ranges[j]
    BY <1>2, <2>1
  <2>3. \A i \in D : \E j \in D : ranges[i] = captured[j]
    BY <1>3, <2>1
  <2>4. {ranges[i] : i \in D} = {captured[i] : i \in D}
    <3>1. \A x \in {ranges[i] : i \in D} : x \in {captured[i] : i \in D}
      BY <2>3
    <3>2. \A x \in {captured[i] : i \in D} : x \in {ranges[i] : i \in D}
      BY <2>2
    <3> QED BY <3>1, <3>2
  <2> QED BY <1>1, <1>4, <2>4 DEF ToSet
<1> QED BY <1>7, <1>8, <1>9
-----------------------------------------------------------------------------
\* The theorem.

LEMMA LastIsInnermost ==
    ASSUME NEW ranges, Sorted(ranges), NarrowLast(ranges), NEW b \in Nat,
           NEW i \in At(ranges, b), \A j \in At(ranges, b) : j <= i, NEW j \in At(ranges, b)
    PROVE  IF Nest(ranges[i], ranges[j])
           THEN ranges[i].stop - ranges[i].start <= ranges[j].stop - ranges[j].start
           ELSE ranges[j].start < ranges[i].start
<1>1. i \in 1 .. Len(ranges) /\ j \in 1 .. Len(ranges) /\ j <= i
  BY SortedFacts DEF At
<1>2. /\ ranges[i].start \in Nat /\ ranges[i].stop \in Nat
      /\ ranges[j].start \in Nat /\ ranges[j].stop \in Nat
  BY <1>1, SortedFacts
<1>3. CASE i = j
  BY <1>2, <1>3 DEF Nest
<1>4. CASE j < i
  <2>1. ranges[j].start <= ranges[i].start
    BY <1>1, <1>4, SortedFacts
  <2>2. ranges[j].start = ranges[i].start => ranges[i].stop <= ranges[j].stop
    BY <1>1, <1>4 DEF NarrowLast
  <2> QED BY <1>2, <2>1, <2>2 DEF Nest
<1>5. j < i \/ i = j
  BY <1>1, SortedFacts
<1> QED BY <1>3, <1>4, <1>5

LEMMA ResolveShowsInnermost ==
    ASSUME AtCase, found \in Seq(Match), \A r \in ToSet(CapturedRanges) : ~ Turned(r),
           NEW ranges \in SortedRanges(CapturedRanges), ranges # << >>,
           NEW result, result = ResolveOverlaps(ranges), NEW b \in Nat
    PROVE  LET covering == {r \in ToSet(CapturedRanges) : Covers(r, b)}
               inner  == {r \in covering : \A s \in covering :
                             IF Nest(r, s) THEN r.stop - r.start <= s.stop - s.start
                             ELSE s.start < r.start}
               here   == {i \in DOMAIN result : Covers(result[i], b)}
           IN  IF covering = {} THEN here = {}
               ELSE \E i \in here : /\ here = {i}
                                    /\ result[i].capture \in {r.capture : r \in inner}
<1> DEFINE covering == {r \in ToSet(CapturedRanges) : Covers(r, b)}
           inner  == {r \in covering : \A s \in covering :
                         IF Nest(r, s) THEN r.stop - r.start <= s.stop - s.start
                         ELSE s.start < r.start}
           here   == {i \in DOMAIN result : Covers(result[i], b)}
           at == At(ranges, b)
<1>1. Sorted(ranges) /\ NarrowLast(ranges) /\ ToSet(ranges) = ToSet(CapturedRanges)
  BY CapturedAreNotEmpty, SortedRangesAre
<1>2. covering = {ranges[i] : i \in at}
  <2>1. covering = {r \in {ranges[i] : i \in DOMAIN ranges} : Covers(r, b)}
    BY <1>1 DEF ToSet
  <2> QED BY <2>1 DEF At
<1>3. ShowsAt(ranges, result, b)
  BY <1>1, ResolveShowsTheLast
<1>4. CASE at = {}
  <2>1. here = {} /\ covering = {}
    BY <1>2, <1>3, <1>4 DEF ShowsAt
  <2> QED BY <2>1
<1>5. CASE at # {}
  <2>1. PICK k \in here : here = {k} /\ IsTop(ranges, at, result[k].capture)
    BY <1>3, <1>5 DEF ShowsAt
  <2>2. PICK i \in at : (\A j \in at : j <= i) /\ result[k].capture = ranges[i].capture
    BY <1>5, <2>1 DEF IsTop
  <2> HIDE DEF at
  <2>3. \A j \in at : IF Nest(ranges[i], ranges[j])
                      THEN ranges[i].stop - ranges[i].start <= ranges[j].stop - ranges[j].start
                      ELSE ranges[j].start < ranges[i].start
    BY <1>1, <2>2, LastIsInnermost DEF at
  <2>4. ranges[i] \in covering /\ covering # {}
    BY <1>2
  <2> HIDE DEF covering
  <2>5. ranges[i] \in inner
    BY <1>2, <2>3, <2>4
  <2>6. result[k].capture \in {r.capture : r \in inner}
    BY <2>2, <2>5
  <2> HIDE DEF inner, here
  <2>7. IF covering = {} THEN here = {}
        ELSE \E h \in here : here = {h} /\ result[h].capture \in {r.capture : r \in inner}
    BY <2>1, <2>4, <2>6
  <2> QED BY <2>7 DEF covering, inner, here
<1> QED BY <1>4, <1>5

HInv == IInv /\ InnermostIsShown /\ (spans # << >> => done)

LEMMA CursorStops == ASSUME IInv, done, Next PROVE UNCHANGED vars
<1>1. call = "none"
  BY DEF IInv, Calls
<1>2. ~ Work
  BY <1>1 DEF Work, VisitNode, TryCandidate, LeaveNode, EndOfWalk
<1>3. CallAfterEnd
  BY <1>2 DEF Next, Call, CallNextMatch, NextPendingCapture, CallNextCapture
<1> QED BY <1>3 DEF CallAfterEnd

LEMMA SpansKept ==
    ASSUME HInv, UNCHANGED highlightVars PROVE HInv'
<1>1. UNCHANGED vars /\ spans' = spans
  BY DEF highlightVars
<1>2. doc' = doc /\ found' = found /\ done' = done
  BY <1>1 DEF vars
<1>3. IInv'
  BY <1>1, StutterKeeps DEF HInv
<1>4. InnermostIsShown'
  <2>1. CapturedRanges' = CapturedRanges
    BY <1>2 DEF CapturedRanges, RangesOf, RangeOf
  <2> QED BY <1>1, <1>2, <2>1 DEF HInv, InnermostIsShown
<1> QED BY <1>1, <1>2, <1>3, <1>4 DEF HInv

LEMMA HighlightKeeps ==
    ASSUME HInv, Highlight PROVE HInv'
<1>1. /\ UNCHANGED vars /\ done
      /\ \E r \in SortedRanges(CapturedRanges) : r # << >> /\ spans' = ResolveOverlaps(r)
  BY DEF Highlight
<1>2. PICK ranges \in SortedRanges(CapturedRanges) :
         ranges # << >> /\ spans' = ResolveOverlaps(ranges)
  BY <1>1
<1>3. doc' = doc /\ found' = found /\ done' = done
  BY <1>1 DEF vars
<1>4. CapturedRanges' = CapturedRanges
  BY <1>3 DEF CapturedRanges, RangesOf, RangeOf
<1>5. AtCase /\ found \in Seq(Match)
  BY DEF HInv, IInv, FoundBelow
<1>6. InnermostIsShown'
  <2>1. \A b \in UNION {0 .. doc.stop[n] : n \in DOMAIN doc.stop} : b \in Nat
    BY <1>5, SpanFacts
  <2> QED BY <1>2, <1>3, <1>4, <1>5, <2>1, ResolveShowsInnermost DEF InnermostIsShown
<1>7. IInv'
  BY <1>1, StutterKeeps DEF HInv
<1> QED BY <1>1, <1>3, <1>6, <1>7 DEF HInv

\* InnermostIsShown: Highlight shows at each byte of the document that a
\* capture covers exactly one name, that of an innermost capture there, and
\* nothing elsewhere, unless a captured node starts behind its end.  How the
\* spans of nodes lie to each other is left open.
THEOREM InnermostShown == HighlightSpec => []InnermostIsShown
<1>1. HighlightInit => HInv
  <2> SUFFICES ASSUME HighlightInit PROVE HInv
    OBVIOUS
  <2>1. Init /\ spans = << >>
    BY DEF HighlightInit
  <2> QED BY <2>1, InitKeeps DEF HInv, InnermostIsShown
<1>2. HInv /\ [HighlightNext]_highlightVars => HInv'
  <2> SUFFICES ASSUME HInv, [HighlightNext]_highlightVars PROVE HInv'
    OBVIOUS
  <2>1. CASE Next /\ UNCHANGED spans
    <3>1. CASE spans = << >>
      <4>1. IInv'
        BY <2>1, CursorKeeps DEF HInv
      <4> QED BY <2>1, <3>1, <4>1 DEF HInv, InnermostIsShown
    <3>2. CASE spans # << >>
      <4>1. UNCHANGED vars
        BY <2>1, <3>2, CursorStops DEF HInv
      <4>2. UNCHANGED highlightVars
        BY <2>1, <4>1 DEF highlightVars
      <4> QED BY <4>2, SpansKept
    <3> QED BY <3>1, <3>2
  <2>2. CASE Highlight
    BY <2>2, HighlightKeeps
  <2>3. CASE UNCHANGED highlightVars
    BY <2>3, SpansKept
  <2> QED BY <2>1, <2>2, <2>3 DEF HighlightNext
<1>3. HInv => InnermostIsShown
  BY DEF HInv
<1> QED BY <1>1, <1>2, <1>3, PTL DEF HighlightSpec
=============================================================================
