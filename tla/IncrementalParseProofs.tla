----------------------- MODULE IncrementalParseProofs -----------------------
(***************************************************************************)
(* Proofs about IncrementalParse, for all tables, texts and edits: types,  *)
(* and however edits pile up before the next parse, a node that is not     *)
(* dirty spans the text it was parsed from.                                *)
(***************************************************************************)
EXTENDS IncrementalParse, NumberLemmas, SequenceTheorems

-----------------------------------------------------------------------------
\* Least elements, and what Moved computes.

LEMMA MinOf ==
    ASSUME NEW T, T \subseteq Nat, T # {}
    PROVE  Min(T) \in T /\ \A x \in T : Min(T) <= x
<1>1. \E x \in T : \A y \in T : x <= y
  BY LeastElement
<1> QED BY <1>1 DEF Min

LEMMA MovedIs ==
    ASSUME NEW v \in Nat, NEW edit, edit.newEnd \in Nat, edit.oldEnd \in Nat
    PROVE  LET w == v + edit.newEnd - edit.oldEnd
           IN  Moved(v, edit) = IF w >= 0 THEN w ELSE 0
<1> DEFINE w == v + edit.newEnd - edit.oldEnd
           top == IF w >= 0 THEN w ELSE 0
<1>1. w \in Int /\ top \in Nat
  OBVIOUS
<1>2. top \in {0, w} /\ \A y \in {0, w} : top >= y
  BY <1>1
<1>3. \A x \in {0, w} : (\A y \in {0, w} : x >= y) => x = top
  BY <1>1
<1> HIDE DEF w, top
<1>4. Max({0, w}) = top
  BY <1>2, <1>3 DEF Max
<1> QED BY <1>4 DEF Moved, w, top

-----------------------------------------------------------------------------
\* Tokens.  One that is read from a place on ends within the text.

\* The provers do not know a literal to be in STRING.
Names == STRING \cup {"end", "pattern", "n", "none", "ERROR"}
TokenSet == [symbol : Names, start : Nat, end : Nat]

Reads(s, at, token) ==
  /\ token \in TokenSet
  /\ at <= token.start /\ token.start <= token.end /\ token.end <= Len(s)

LEMMA TokenIs ==
    ASSUME NEW symbol \in Names, NEW from \in Nat, NEW to \in Nat
    PROVE  /\ Token(symbol, from, to) \in TokenSet
           /\ Token(symbol, from, to).symbol = symbol
           /\ Token(symbol, from, to).start = from /\ Token(symbol, from, to).end = to
BY DEF Token, TokenSet

LEMMA NamesAre ==
    /\ STRING \subseteq Names
    /\ "end" \in Names /\ "pattern" \in Names /\ "n" \in Names
    /\ "none" \in Names /\ "ERROR" \in Names
BY DEF Names

LEMMA TokenReads ==
    ASSUME NEW s, NEW at \in Nat, NEW symbol \in Names, NEW from \in Nat, NEW to \in Nat,
           at <= from, from <= to, to <= Len(s), NEW token, token = Token(symbol, from, to)
    PROVE  Reads(s, at, token)
<1>1. token \in TokenSet /\ token.start = from /\ token.end = to
  BY TokenIs
<1> QED BY <1>1 DEF Reads

LEMMA RunEndIs ==
    ASSUME NEW s \in Seq(STRING), NEW at \in 0 .. Len(s), NEW chars
    PROVE  RunEnd(s, at, chars) \in at .. Len(s)
<1> DEFINE ends == {k \in at .. Len(s) : k = Len(s) \/ s[k + 1] \notin chars}
<1>1. ends \subseteq Nat /\ Len(s) \in ends
  OBVIOUS
<1>2. Min(ends) \in ends
  <2> HIDE DEF ends
  <2> QED BY <1>1, MinOf
<1> QED BY <1>2 DEF RunEnd

LEMMA LexReads ==
    ASSUME NEW s \in Seq(STRING), NEW at \in 0 .. Len(s), NEW mode
    PROVE  Reads(s, at, Lex(s, at, mode))
<1> DEFINE start == RunEnd(s, at, Blanks)
           closed == {k \in start + 3 .. Len(s) : s[start + 1] = Slash /\ s[k] = Slash}
           token == Lex(s, at, mode)
<1> SUFFICES Reads(s, at, token)
  OBVIOUS
<1>0. Slash \notin Digits /\ Comment \notin Digits /\ Slash # Comment
  BY Zenon DEF Slash, Digits, Comment
<1>1. start \in at .. Len(s) /\ Len(s) \in Nat /\ start \in Nat
  <2>1. start \in at .. Len(s)
    BY RunEndIs
  <2> QED BY <2>1
<1> HIDE DEF start
<1>2. CASE start = Len(s)
  <2>1. token = Token("end", start, start)
    BY <1>2 DEF Lex, start
  <2> QED BY <1>1, <2>1, NamesAre, TokenReads
<1>3. CASE start # Len(s)
  <2>1. start < Len(s) /\ start + 1 \in 1 .. Len(s) /\ s[start + 1] \in STRING
    BY <1>1, <1>3
  <2>2. CASE mode = "operand" /\ closed # {}
    <3>0. s[start + 1] \notin Digits /\ s[start + 1] # Comment
      BY <1>0, <2>2
    <3>1. token = Token("pattern", start, Min(closed))
      <4> DEFINE t == Token("pattern", start, Min(closed))
      <4> SUFFICES token = t
        OBVIOUS
      <4> HIDE DEF t
      <4>1. Lex(s, at, mode) = t
        BY <1>3, <2>1, <2>2, <3>0 DEF Lex, start, t
      <4> QED BY <4>1
    <3>2. Min(closed) \in closed
      <4>1. closed \subseteq Nat
        BY <1>1
      <4> HIDE DEF closed
      <4> QED BY <2>2, <4>1, MinOf
    <3>3. Min(closed) \in Nat /\ start <= Min(closed) /\ Min(closed) <= Len(s)
      BY <1>1, <3>2
    <3> HIDE DEF closed, token
    <3> QED BY <1>1, <3>1, <3>3, NamesAre, TokenReads
  <2>3. CASE ~ (mode = "operand" /\ closed # {}) /\ s[start + 1] \in Digits
    <3>1. token = Token("n", start, RunEnd(s, start, Digits))
      BY <1>0, <1>3, <2>1, <2>3 DEF Lex, start
    <3>2. RunEnd(s, start, Digits) \in start .. Len(s)
      BY <1>1, RunEndIs
    <3> HIDE DEF token
    <3> QED BY <1>1, <3>1, <3>2, NamesAre, TokenReads
  <2>4. CASE /\ ~ (mode = "operand" /\ closed # {}) /\ s[start + 1] \notin Digits
             /\ s[start + 1] = Comment
    <3>1. token = Token(Comment, start, RunEnd(s, start, {Comment}))
      BY <1>3, <2>1, <2>4 DEF Lex, start
    <3>2. RunEnd(s, start, {Comment}) \in start .. Len(s)
      BY <1>1, RunEndIs
    <3>3. Comment \in Names
      BY <2>1, <2>4, NamesAre
    <3> HIDE DEF token
    <3> QED BY <1>1, <3>1, <3>2, <3>3, NamesAre, TokenReads
  <2>5. CASE /\ ~ (mode = "operand" /\ closed # {}) /\ s[start + 1] \notin Digits
             /\ s[start + 1] # Comment
    <3>1. token = Token(s[start + 1], start, start + 1)
      BY <1>3, <2>1, <2>5 DEF Lex, start
    <3>2. s[start + 1] \in Names
      BY <2>1, NamesAre
    <3>3. start + 1 \in Nat /\ start + 1 <= Len(s) /\ start <= start + 1 /\ at <= start
      BY <1>1, <2>1
    <3> HIDE DEF token
    <3> QED BY <1>1, <3>1, <3>2, <3>3, TokenReads
  <2> QED BY <2>2, <2>3, <2>4, <2>5
<1> QED BY <1>2, <1>3

LEMMA ReadReads ==
    ASSUME name \in DOMAIN Languages, NEW s \in Seq(STRING), NEW at \in 0 .. Len(s),
           NEW state, NEW scan \in Nat
    PROVE  /\ Reads(s, at, Read(s, at, state, scan).token)
           /\ Read(s, at, state, scan).scan \in Nat
<1> DEFINE asked == /\ at < Len(s) /\ <<scan, s[at + 1]>> \in DOMAIN lang.scanner
                    /\ \E x \in lang.externals : Actions(state, x) # << >>
           found == lang.scanner[<<scan, s[at + 1]>>]
           read == Read(s, at, state, scan)
<1>1. CASE asked
  <2>1. Read(s, at, state, scan) = [token |-> Token(found.symbol, at, at + 1), scan |-> found.next]
    BY <1>1 DEF Read
  <2>2. IsTable(lang)
    BY LanguagesAreTables DEF lang
  <2>3. found \in [symbol : STRING, next : Nat]
    BY <1>1, <2>2 DEF IsTable
  <2>4. found.symbol \in STRING /\ found.next \in Nat
    BY <2>3
  <2>5. at \in Nat /\ at + 1 \in Nat /\ at + 1 <= Len(s)
    BY <1>1
  <2>6. found.symbol \in Names
    BY <2>4, NamesAre
  <2>7. read.token = Token(found.symbol, at, at + 1) /\ read.scan = found.next
    BY <2>1
  <2> SUFFICES Reads(s, at, read.token) /\ read.scan \in Nat
    OBVIOUS
  <2> HIDE DEF found, read
  <2> QED BY <2>4, <2>5, <2>6, <2>7, TokenReads
<1>2. CASE ~ asked
  <2>1. Read(s, at, state, scan) = [token |-> Lex(s, at, Mode(state)), scan |-> scan]
    BY <1>2 DEF Read
  <2> QED BY <2>1, LexReads
<1> QED BY <1>1, <1>2

LEMMA ActionsAre ==
    ASSUME name \in DOMAIN Languages, NEW state, NEW symbol
    PROVE  /\ Actions(state, symbol) \in Seq(TableAction)
           /\ symbol = "end" => \A k \in DOMAIN Actions(state, symbol) :
                                   Actions(state, symbol)[k].type # "shift"
<1>1. IsTable(lang)
  BY LanguagesAreTables DEF lang
<1>2. CASE <<state, symbol>> \in DOMAIN lang.action
  BY <1>1, <1>2 DEF IsTable, Actions
<1>3. CASE <<state, symbol>> \notin DOMAIN lang.action
  BY <1>3 DEF Actions
<1> QED BY <1>2, <1>3

-----------------------------------------------------------------------------
\* Trees.  A sequence of nodes in pre-order is a forest when each node is
\* followed by all of its subtree, within the subtrees it is in.

TreeNode ==
  [symbol : Names, start : Nat, end : Nat, size : Nat \ {0}, state : Nat, extra : BOOLEAN,
   error : BOOLEAN, dirty : BOOLEAN, was : Nat \X Nat, by : Nat,
   scans : Nat \X Nat, ahead : Names, id : Int]

Under(t, i) == i + 1 .. i + t[i].size - 1

Forest(t) ==
  /\ t \in Seq(TreeNode)
  /\ \A i \in DOMAIN t : i + t[i].size <= Len(t) + 1
  /\ \A i \in DOMAIN t : \A k \in Under(t, i) : k + t[k].size <= i + t[i].size

\* Its nodes end within those above them, and within the text.
Snug(t, len) ==
  /\ \A i \in DOMAIN t : t[i].end <= len
  /\ \A i \in DOMAIN t : \A k \in Under(t, i) : t[k].end <= t[i].end

\* They also begin within those above them, and not behind their end.
Upright(t) ==
  /\ \A i \in DOMAIN t : t[i].start <= t[i].end
  /\ \A i \in DOMAIN t : \A k \in Under(t, i) : t[i].start <= t[k].start

Good(t, len, snug, strict) ==
  Forest(t) /\ (snug => Snug(t, len)) /\ (strict => Upright(t))

\* The first node is the root of all, and ends within the text.
Rooted(t, len) ==
  Len(t) > 0 /\ t[1].size = Len(t) /\ t[1].start <= t[1].end /\ t[1].end <= len

\* One good tree from here to there.
OneTree(t, from, to, len, snug, strict) ==
  Good(t, len, snug, strict) /\ Rooted(t, len) /\ t[1].start = from /\ t[1].end = to

LEMMA NodeFacts ==
    ASSUME NEW t \in Seq(TreeNode)
    PROVE  /\ Len(t) \in Nat /\ DOMAIN t = 1 .. Len(t)
           /\ \A i \in 1 .. Len(t) :
                /\ t[i] \in TreeNode /\ t[i].start \in Nat /\ t[i].end \in Nat
                /\ t[i].size \in Nat \ {0}
<1>1. \A x \in TreeNode : x.start \in Nat /\ x.end \in Nat /\ x.size \in Nat \ {0}
  BY DEF TreeNode
<1>2. \A i \in 1 .. Len(t) : t[i] \in TreeNode
  OBVIOUS
<1> QED BY <1>1, <1>2

LEMMA RootBounds ==
    ASSUME NEW t, NEW len, NEW snug, NEW strict, Good(t, len, snug, strict), Rooted(t, len)
    PROVE  \A k \in DOMAIN t : /\ snug => t[k].end <= t[1].end
                               /\ strict => t[1].start <= t[k].start
<1>1. t \in Seq(TreeNode)
  BY DEF Good, Forest
<1>2. 1 \in DOMAIN t /\ DOMAIN t = 1 .. Len(t) /\ Len(t) \in Nat
  BY <1>1 DEF Rooted
<1> TAKE k \in DOMAIN t
<1>3. CASE k = 1
  BY <1>1, <1>2, <1>3, NodeFacts
<1>4. CASE k # 1
  <2>1. k \in Under(t, 1)
    BY <1>2, <1>4 DEF Under, Rooted
  <2> QED BY <1>2, <2>1 DEF Good, Snug, Upright
<1> QED BY <1>3, <1>4

\* Forests beside each other.
LEMMA ConcatGood ==
    ASSUME NEW a, NEW b, NEW len, NEW snug, NEW strict,
           Good(a, len, snug, strict), Good(b, len, snug, strict)
    PROVE  /\ Good(a \o b, len, snug, strict)
           /\ Len(a \o b) = Len(a) + Len(b) /\ Len(a) \in Nat /\ Len(b) \in Nat
           /\ \A i \in 1 .. Len(a) : (a \o b)[i] = a[i]
           /\ \A i \in 1 .. Len(b) : (a \o b)[Len(a) + i] = b[i]
           /\ \A i \in DOMAIN (a \o b) : \/ i \in 1 .. Len(a)
                                         \/ i - Len(a) \in 1 .. Len(b)
<1> DEFINE c == a \o b
           n == Len(a)
<1>1. a \in Seq(TreeNode) /\ b \in Seq(TreeNode)
  BY DEF Good, Forest
<1>2. /\ n \in Nat /\ Len(b) \in Nat /\ DOMAIN a = 1 .. n /\ DOMAIN b = 1 .. Len(b)
  BY <1>1
<1>3. /\ c \in Seq(TreeNode) /\ Len(c) = n + Len(b)
      /\ \A i \in 1 .. n + Len(b) : c[i] = IF i <= n THEN a[i] ELSE b[i - n]
  BY <1>1, ConcatProperties
<1> HIDE DEF c
<1>4. DOMAIN c = 1 .. n + Len(b)
  BY <1>3
<1>5. \A i \in 1 .. n : c[i] = a[i] /\ i \in DOMAIN a
  BY <1>2, <1>3
<1>6. \A i \in 1 .. Len(b) : c[n + i] = b[i] /\ i \in DOMAIN b
  <2> TAKE i \in 1 .. Len(b)
  <2>1. n + i \in 1 .. n + Len(b) /\ ~ (n + i <= n) /\ (n + i) - n = i
    BY <1>2
  <2> QED BY <1>2, <1>3, <2>1
<1>7. \A i \in DOMAIN c : i \in 1 .. n \/ i - n \in 1 .. Len(b)
  BY <1>2, <1>4
<1>8. \A i \in 1 .. n : /\ c[i] = a[i] /\ i \in Nat /\ c[i].size \in Nat \ {0}
                        /\ i + c[i].size <= n + 1 /\ (snug => c[i].end <= len)
                        /\ Under(c, i) = Under(a, i)
  <2> TAKE i \in 1 .. n
  <2>1. c[i] = a[i] /\ i \in Nat /\ i \in DOMAIN a /\ a[i].size \in Nat \ {0}
    BY <1>1, <1>2, <1>5, NodeFacts
  <2>2. i + a[i].size <= n + 1 /\ (snug => a[i].end <= len)
    BY <2>1 DEF Good, Forest, Snug
  <2> QED BY <2>1, <2>2 DEF Under
<1>9. \A i \in DOMAIN c \ (1 .. n) :
         /\ i - n \in 1 .. Len(b) /\ c[i] = b[i - n] /\ i \in Nat /\ c[i].size \in Nat \ {0}
         /\ i + c[i].size <= n + Len(b) + 1 /\ (snug => c[i].end <= len)
         /\ \A k \in Under(c, i) : k - n \in Under(b, i - n) /\ k \in DOMAIN c \ (1 .. n)
  <2> TAKE i \in DOMAIN c \ (1 .. n)
  <2>1. i - n \in 1 .. Len(b) /\ i \in Nat /\ n + (i - n) = i
    BY <1>2, <1>4
  <2>2. c[i] = b[i - n] /\ i - n \in DOMAIN b
    BY <1>6, <2>1
  <2>3. /\ b[i - n].size \in Nat \ {0} /\ (i - n) + b[i - n].size <= Len(b) + 1
        /\ snug => b[i - n].end <= len
    BY <1>1, <2>1, <2>2, NodeFacts DEF Good, Forest, Snug
  <2>4. i + c[i].size <= n + Len(b) + 1
    BY <1>2, <2>1, <2>2, <2>3
  <2>5. \A k \in Under(c, i) : k - n \in Under(b, i - n) /\ k \in DOMAIN c \ (1 .. n)
    BY <1>2, <1>4, <2>1, <2>2, <2>3, <2>4 DEF Under
  <2> QED BY <2>1, <2>2, <2>3, <2>4, <2>5
<1>10. \A i \in 1 .. n : \A k \in Under(c, i) : k \in 1 .. n
  BY <1>2, <1>8 DEF Under
<1>11. ASSUME NEW i \in DOMAIN c, NEW k \in Under(c, i)
       PROVE  /\ k + c[k].size <= i + c[i].size
              /\ snug => c[k].end <= c[i].end
              /\ strict => c[i].start <= c[k].start
  <2>1. CASE i \in 1 .. n
    <3>1. k \in 1 .. n /\ k \in Under(a, i) /\ i \in DOMAIN a /\ c[k] = a[k] /\ c[i] = a[i]
      BY <1>5, <1>8, <1>10, <1>11, <2>1
    <3> QED BY <3>1 DEF Good, Forest, Snug, Upright
  <2>2. CASE i \notin 1 .. n
    <3>1. /\ k - n \in Under(b, i - n) /\ i - n \in DOMAIN b
          /\ c[k] = b[k - n] /\ c[i] = b[i - n]
      BY <1>2, <1>9, <1>11, <2>2
    <3>2. /\ (k - n) + b[k - n].size <= (i - n) + b[i - n].size
          /\ snug => b[k - n].end <= b[i - n].end
          /\ strict => b[i - n].start <= b[k - n].start
      BY <3>1 DEF Good, Forest, Snug, Upright
    <3>3. /\ i \in Nat /\ k \in Nat /\ b[i - n].size \in Nat /\ b[k - n].size \in Nat
      BY <1>9, <1>11, <2>2, <3>1
    <3> QED BY <1>2, <3>1, <3>2, <3>3
  <2> QED BY <2>1, <2>2
<1>12. Forest(c) /\ (snug => Snug(c, len))
  <2>1. \A i \in DOMAIN c : (snug => c[i].end <= len) /\ i + c[i].size <= Len(c) + 1
    <3> TAKE i \in DOMAIN c
    <3>1. CASE i \in 1 .. n
      BY <1>2, <1>3, <1>8, <3>1
    <3>2. CASE i \notin 1 .. n
      BY <1>3, <1>9, <3>2
    <3> QED BY <3>1, <3>2
  <2> QED BY <1>3, <1>11, <2>1 DEF Forest, Snug
<1>13. strict => Upright(c)
  <2> SUFFICES ASSUME strict PROVE Upright(c)
    OBVIOUS
  <2>1. \A i \in DOMAIN c : c[i].start <= c[i].end
    <3> TAKE i \in DOMAIN c
    <3>1. CASE i \in 1 .. n
      BY <1>5, <3>1 DEF Good, Upright
    <3>2. CASE i \notin 1 .. n
      BY <1>2, <1>9, <3>2 DEF Good, Upright
    <3> QED BY <3>1, <3>2
  <2> QED BY <1>11, <2>1 DEF Upright
<1>14. Good(c, len, snug, strict)
  BY <1>12, <1>13 DEF Good
<1> QED BY <1>2, <1>3, <1>5, <1>6, <1>7, <1>14 DEF c

\* Joined subtrees: how FlattenSeq goes along, and what it makes.
Flattens(kids, flat) ==
  \E f \in [1 .. Len(kids) -> Seq(TreeNode)] :
     /\ f[1] = kids[1] /\ flat = f[Len(kids)]
     /\ \A k \in 2 .. Len(kids) : f[k] = f[k - 1] \o kids[k]

LEMMA FlattenSteps ==
    ASSUME NEW kids \in Seq(Seq(TreeNode)), Len(kids) > 0
    PROVE  Flattens(kids, FlattenSeq(kids))
<1> DEFINE n == Len(kids)
           S == Seq(TreeNode)
           step == [k \in 1 .. n - 1 |-> [q \in S |-> q \o kids[k + 1]]]
           flatten[i \in 1 .. Len(kids)] ==
             IF i = 1 THEN kids[i] ELSE flatten[i - 1] \o kids[i]
<1>1. n \in Nat /\ n > 0 /\ n - 1 \in Nat /\ \A k \in 1 .. n : kids[k] \in S
  OBVIOUS
<1>2. step \in [1 .. n - 1 -> [S -> S]]
  <2>1. \A k \in 1 .. n - 1 : \A q \in S : q \o kids[k + 1] \in S
    <3> TAKE k \in 1 .. n - 1
    <3> TAKE q \in S
    <3>1. kids[k + 1] \in Seq(TreeNode) /\ q \in Seq(TreeNode)
      BY <1>1
    <3> QED BY <3>1, ConcatProperties
  <2> QED BY <2>1
<1>3. Steps(S, kids[1], step, n - 1)
  <2>1. kids[1] \in S
    BY <1>1
  <2> HIDE DEF step, n, S
  <2> QED BY <1>1, <1>2, <2>1, StepsExist
<1>4. PICK h \in [0 .. n - 1 -> S] :
         h[0] = kids[1] /\ \A k \in 1 .. n - 1 : h[k] = step[k][h[k - 1]]
  BY <1>3, Zenon DEF Steps
<1>5. \A k \in 1 .. n - 1 : h[k] = h[k - 1] \o kids[k + 1]
  <2> TAKE k \in 1 .. n - 1
  <2>1. k - 1 \in 0 .. n - 1
    BY <1>1
  <2>2. h[k - 1] \in S
    <3> HIDE DEF S, n
    <3> QED BY <2>1
  <2>3. step[k] = [q \in S |-> q \o kids[k + 1]]
    OBVIOUS
  <2>4. h[k] = step[k][h[k - 1]]
    BY <1>4
  <2> QED BY <2>2, <2>3, <2>4
<1> DEFINE g == [k \in 1 .. n |-> h[k - 1]]
<1>6. /\ g \in [1 .. n -> S] /\ g[1] = kids[1]
      /\ \A k \in 2 .. n : g[k] = g[k - 1] \o kids[k]
  <2>1. g \in [1 .. n -> S] /\ g[1] = kids[1]
    BY <1>1, <1>4
  <2>2. \A k \in 2 .. n : g[k] = g[k - 1] \o kids[k]
    <3> TAKE k \in 2 .. n
    <3>1. k - 1 \in 1 .. n - 1 /\ (k - 1) + 1 = k /\ k \in 1 .. n /\ k - 1 \in 1 .. n
      BY <1>1
    <3>2. h[k - 1] = h[(k - 1) - 1] \o kids[(k - 1) + 1]
      BY <1>5, <3>1
    <3>3. g[k] = h[k - 1] /\ g[k - 1] = h[(k - 1) - 1]
      BY <3>1
    <3> HIDE DEF g
    <3> QED BY <3>1, <3>2, <3>3
  <2> QED BY <2>1, <2>2
<1> HIDE DEF g
<1>7. g = [i \in 1 .. Len(kids) |-> IF i = 1 THEN kids[i] ELSE g[i - 1] \o kids[i]]
  BY <1>1, <1>6
<1>8. flatten = [i \in 1 .. Len(kids) |-> IF i = 1 THEN kids[i] ELSE flatten[i - 1] \o kids[i]]
  BY <1>7, Zenon
<1>9. FlattenSeq(kids) = flatten[n]
  BY <1>1 DEF FlattenSeq
<1> HIDE DEF flatten
<1>10. /\ flatten[1] = kids[1]
       /\ \A k \in 2 .. n : flatten[k] = flatten[k - 1] \o kids[k]
  <2> HIDE DEF n
  <2>1. 1 \in 1 .. n /\ \A k \in 2 .. n : k \in 1 .. n /\ k # 1
    BY <1>1
  <2>2. \A k \in 1 .. n : flatten[k] = IF k = 1 THEN kids[k] ELSE flatten[k - 1] \o kids[k]
    BY <1>8, Zenon DEF n
  <2> QED BY <2>1, <2>2
<1>11. flatten \in [1 .. n -> S]
  <2> DEFINE T == {k \in 0 .. n - 1 : flatten[k + 1] \in S}
  <2>1. 0 \in T
    BY <1>1, <1>10
  <2>2. \A k \in 1 .. n - 1 : k - 1 \in T => k \in T
    <3> TAKE k \in 1 .. n - 1
    <3> HAVE k - 1 \in T
    <3>1. k + 1 \in 2 .. n /\ (k + 1) - 1 = k /\ (k - 1) + 1 = k
      BY <1>1
    <3>2. flatten[k] \in Seq(TreeNode) /\ kids[k + 1] \in Seq(TreeNode)
      BY <1>1, <3>1
    <3>3. flatten[k + 1] = flatten[k] \o kids[k + 1]
      BY <1>10, <3>1
    <3>4. flatten[k + 1] \in S
      BY <3>2, <3>3, ConcatProperties
    <3> QED BY <3>4
  <2>3. 0 .. n - 1 \subseteq T
    <3> HIDE DEF T
    <3> QED BY <1>1, <2>1, <2>2, UpTo
  <2>4. \A k \in 1 .. n : flatten[k] \in S
    <3> TAKE k \in 1 .. n
    <3>1. k - 1 \in 0 .. n - 1 /\ (k - 1) + 1 = k
      BY <1>1
    <3>2. k - 1 \in T
      <4> HIDE DEF T
      <4> QED BY <2>3, <3>1
    <3> QED BY <3>1, <3>2
  <2> QED BY <1>8, <2>4
<1> QED BY <1>9, <1>10, <1>11, Zenon DEF Flattens

\* What is joined is good if each part is, and has no other nodes.
LEMMA FlattenGood ==
    ASSUME NEW kids \in Seq(Seq(TreeNode)), Len(kids) > 0, NEW len, NEW snug, NEW strict,
           \A k \in 1 .. Len(kids) : Good(kids[k], len, snug, strict)
    PROVE  /\ Good(FlattenSeq(kids), len, snug, strict)
           /\ \A i \in DOMAIN FlattenSeq(kids) : \E k \in 1 .. Len(kids) :
                \E m \in DOMAIN kids[k] : FlattenSeq(kids)[i] = kids[k][m]
<1> DEFINE n == Len(kids)
           Stems(flat) == \A i \in DOMAIN flat : \E k \in 1 .. n : \E m \in DOMAIN kids[k] :
                            flat[i] = kids[k][m]
<1>1. n \in Nat /\ n > 0
  OBVIOUS
<1>2. Flattens(kids, FlattenSeq(kids))
  BY <1>1, FlattenSteps
<1>3. PICK f \in [1 .. Len(kids) -> Seq(TreeNode)] :
         /\ f[1] = kids[1] /\ FlattenSeq(kids) = f[Len(kids)]
         /\ \A k \in 2 .. Len(kids) : f[k] = f[k - 1] \o kids[k]
  BY <1>2, Zenon DEF Flattens
<1> DEFINE Fine(k) == Good(f[k], len, snug, strict) /\ Stems(f[k])
<1>4. Fine(1)
  <2>1. 1 \in 1 .. n
    BY <1>1
  <2>2. f[1] = kids[1] /\ Good(kids[1], len, snug, strict)
    BY <1>3, <2>1
  <2>3. Stems(kids[1])
    BY <2>1
  <2> HIDE DEF Stems, n
  <2> QED BY <2>2, <2>3
<1>5. ASSUME NEW k \in 2 .. n, Fine(k - 1) PROVE Fine(k)
  <2> DEFINE a == f[k - 1]  b == kids[k]
  <2>1. k \in 1 .. n /\ f[k] = a \o b /\ Good(a, len, snug, strict) /\ Good(b, len, snug, strict)
    <3>1. k \in 1 .. n
      BY <1>1
    <3> QED BY <1>3, <1>5, <3>1
  <2>2. Stems(a)
    BY <1>5
  <2>3. Stems(b)
    BY <2>1
  <2> HIDE DEF a, b
  <2>4. /\ Good(a \o b, len, snug, strict) /\ Len(a) \in Nat /\ Len(b) \in Nat
        /\ \A i \in 1 .. Len(a) : (a \o b)[i] = a[i]
        /\ \A i \in 1 .. Len(b) : (a \o b)[Len(a) + i] = b[i]
        /\ \A i \in DOMAIN (a \o b) : \/ i \in 1 .. Len(a)
                                      \/ i - Len(a) \in 1 .. Len(b)
    BY <2>1, ConcatGood
  <2>5. DOMAIN a = 1 .. Len(a) /\ DOMAIN b = 1 .. Len(b)
    BY <2>1 DEF Good, Forest
  <2>6. \A i \in DOMAIN (a \o b) : \/ \E m \in DOMAIN a : (a \o b)[i] = a[m]
                                   \/ \E m \in DOMAIN b : (a \o b)[i] = b[m]
    <3> TAKE i \in DOMAIN (a \o b)
    <3>1. CASE i \in 1 .. Len(a)
      BY <2>4, <2>5, <3>1
    <3>2. CASE i - Len(a) \in 1 .. Len(b) /\ i \notin 1 .. Len(a)
      <4>1. Good(a \o b, len, snug, strict) => DOMAIN (a \o b) \subseteq Int
        <5>1. \A t \in Seq(TreeNode) : DOMAIN t \subseteq Int
          OBVIOUS
        <5> QED BY <5>1 DEF Good, Forest
      <4>2. Len(a) + (i - Len(a)) = i
        BY <2>4, <4>1
      <4> QED BY <2>4, <2>5, <3>2, <4>2
    <3> QED BY <2>4, <3>1, <3>2
  <2>7. Stems(a \o b)
    <3> DEFINE ab == a \o b
    <3>1. \A i \in DOMAIN ab : (\E m \in DOMAIN a : ab[i] = a[m])
                              \/ (\E m \in DOMAIN b : ab[i] = b[m])
      BY <2>6
    <3> HIDE DEF ab
    <3>2. \A i \in DOMAIN ab : \E k2 \in 1 .. n : \E m \in DOMAIN kids[k2] : ab[i] = kids[k2][m]
      <4> TAKE i \in DOMAIN ab
      <4>1. CASE \E m \in DOMAIN a : ab[i] = a[m]
        BY <2>2, <4>1
      <4>2. CASE \E m \in DOMAIN b : ab[i] = b[m]
        BY <2>3, <4>2
      <4> QED BY <3>1, <4>1, <4>2
    <3> QED BY <3>2 DEF ab
  <2> HIDE DEF Stems
  <2> QED BY <2>1, <2>4, <2>7
<1> HIDE DEF Fine, Stems
<1>6. Fine(n)
  <2> DEFINE T == {k \in 0 .. n - 1 : Fine(k + 1)}
  <2>1. 0 \in T
    BY <1>1, <1>4
  <2>2. \A k \in 1 .. n - 1 : k - 1 \in T => k \in T
    <3> TAKE k \in 1 .. n - 1
    <3> HAVE k - 1 \in T
    <3>1. k + 1 \in 2 .. n /\ (k + 1) - 1 = k /\ (k - 1) + 1 = k
      BY <1>1
    <3>2. Fine(k + 1)
      BY <1>5, <3>1
    <3> QED BY <3>2
  <2>3. 0 .. n - 1 \subseteq T
    <3>1. n - 1 \in Nat
      BY <1>1
    <3> HIDE DEF T, n
    <3> QED BY <2>1, <2>2, <3>1, UpTo
  <2>4. n - 1 \in T /\ (n - 1) + 1 = n
    <3>1. n - 1 \in 0 .. n - 1 /\ (n - 1) + 1 = n
      BY <1>1
    <3> HIDE DEF T
    <3> QED BY <2>3, <3>1
  <2> QED BY <2>4
<1> QED BY <1>3, <1>6 DEF Fine, Stems

\* A leaf, and an error that covers some text.
LEMMA SingleGood ==
    ASSUME NEW node \in TreeNode, NEW len, NEW snug, NEW strict, node.size = 1,
           node.start <= node.end, node.end <= len
    PROVE  Good(<<node>>, len, snug, strict) /\ Rooted(<<node>>, len)
<1> DEFINE t == <<node>>
<1>1. /\ t \in Seq(TreeNode) /\ Len(t) = 1 /\ t[1] = node
      /\ \A i \in DOMAIN t : i = 1
  OBVIOUS
<1> HIDE DEF t
<1>2. \A i \in DOMAIN t : t[i] = node /\ Under(t, i) = {}
  BY <1>1 DEF Under
<1>3. Forest(t) /\ Snug(t, len) /\ Upright(t)
  BY <1>1, <1>2 DEF Forest, Snug, Upright
<1> QED BY <1>1, <1>3 DEF Good, Rooted, t

LEMMA LeafGood ==
    ASSUME NEW token \in TokenSet, NEW state \in Nat, NEW by \in Nat, NEW scans \in Nat \X Nat,
           NEW extra \in BOOLEAN,
           NEW len \in Nat, token.start <= token.end, token.end <= len, NEW snug, NEW strict
    PROVE  OneTree(Leaf(token, state, by, scans, extra), token.start, token.end, len, snug, strict)
<1> DEFINE node == Leaf(token, state, by, scans, extra)[1]
           t == Leaf(token, state, by, scans, extra)
<1>1. token.symbol \in Names /\ token.start \in Nat /\ token.end \in Nat
  BY DEF TokenSet
<1>2. t = <<node>>
  BY DEF Leaf
<1>3. None \in Names
  BY NamesAre DEF None
<1>4. node \in TreeNode
  BY <1>1, <1>3 DEF Leaf, TreeNode
<1>5. node.size = 1 /\ node.start = token.start /\ node.end = token.end
  BY DEF Leaf
<1> HIDE DEF node
<1>6. Good(<<node>>, len, snug, strict) /\ Rooted(<<node>>, len) /\ <<node>>[1] = node
  BY <1>1, <1>4, <1>5, SingleGood
<1> QED BY <1>2, <1>5, <1>6 DEF OneTree

LEMMA ErrorLeafGood ==
    ASSUME NEW from \in Nat, NEW to \in Nat, NEW state \in Nat, NEW scans \in Nat \X Nat,
           NEW len \in Nat, from <= to, to <= len, NEW snug, NEW strict
    PROVE  OneTree(ErrorLeaf(from, to, state, scans), from, to, len, snug, strict)
<1> DEFINE token == Token(ErrorSymbol, from, to)
           leaf == Leaf(token, state, state, scans, FALSE)[1]
           node == [leaf EXCEPT !.error = TRUE]
<1>1. ErrorSymbol \in Names
  BY NamesAre DEF ErrorSymbol
<1>2. token \in TokenSet /\ token.start = from /\ token.end = to
  BY <1>1, TokenIs
<1>3. None \in Names
  BY NamesAre DEF None
<1> HIDE DEF token
<1>4. leaf \in TreeNode /\ leaf.size = 1 /\ leaf.start = from /\ leaf.end = to
  <2>1. token.symbol \in Names
    BY <1>2 DEF TokenSet
  <2> QED BY <1>2, <1>3, <2>1 DEF Leaf, TreeNode
<1>5. ErrorLeaf(from, to, state, scans) = <<node>>
  BY DEF ErrorLeaf, token
<1> HIDE DEF leaf
<1>6. node \in TreeNode /\ node.size = 1 /\ node.start = from /\ node.end = to
  BY <1>4 DEF TreeNode
<1> HIDE DEF node
<1>7. Good(<<node>>, len, snug, strict) /\ Rooted(<<node>>, len) /\ <<node>>[1] = node
  BY <1>6, SingleGood
<1> QED BY <1>5, <1>6, <1>7 DEF OneTree

\* A node above a forest: in front of it, and around it.
Heads(root, flat, len, snug, strict) ==
  /\ root \in TreeNode /\ root.size = 1 + Len(flat)
  /\ root.start <= root.end /\ root.end <= len
  /\ \A i \in DOMAIN flat : /\ snug => flat[i].end <= root.end
                            /\ strict => root.start <= flat[i].start

LEMMA AboveGood ==
    ASSUME NEW root, NEW flat, NEW len, NEW snug, NEW strict,
           Good(flat, len, snug, strict), Heads(root, flat, len, snug, strict)
    PROVE  /\ Good(<<root>> \o flat, len, snug, strict) /\ Rooted(<<root>> \o flat, len)
           /\ (<<root>> \o flat)[1] = root
<1>0. /\ root \in TreeNode /\ root.size = 1 + Len(flat)
      /\ root.start <= root.end /\ root.end <= len
      /\ \A i \in DOMAIN flat : /\ snug => flat[i].end <= root.end
                                /\ strict => root.start <= flat[i].start
  BY DEF Heads
<1> USE <1>0
<1> DEFINE t == <<root>> \o flat
           n == Len(flat)
<1>1. flat \in Seq(TreeNode) /\ <<root>> \in Seq(TreeNode) /\ n \in Nat
      /\ Len(<<root>>) = 1 /\ <<root>>[1] = root
  BY DEF Good, Forest
<1>2. /\ t \in Seq(TreeNode) /\ Len(t) = 1 + n
      /\ \A i \in 1 .. 1 + n : t[i] = IF i <= 1 THEN <<root>>[i] ELSE flat[i - 1]
  BY <1>1, ConcatProperties
<1> HIDE DEF t
<1>3. DOMAIN t = 1 .. 1 + n /\ DOMAIN flat = 1 .. n
  BY <1>1, <1>2
<1>4. t[1] = root
  BY <1>1, <1>2
<1>5. \A i \in 2 .. 1 + n : t[i] = flat[i - 1] /\ i - 1 \in DOMAIN flat
  BY <1>1, <1>2, <1>3
<1>6. \A i \in DOMAIN t : i = 1 \/ i \in 2 .. 1 + n
  BY <1>1, <1>3
<1> DEFINE Kept(i) ==
      /\ snug => t[i].end <= len
      /\ i + t[i].size <= Len(t) + 1
      /\ strict => t[i].start <= t[i].end
      /\ \A k \in Under(t, i) : /\ k + t[k].size <= i + t[i].size
                                /\ snug => t[k].end <= t[i].end
                                /\ strict => t[i].start <= t[k].start
<1>7. \A i \in 2 .. 1 + n :
        /\ t[i].size \in Nat \ {0} /\ i + t[i].size <= n + 2
        /\ \A k \in Under(t, i) : k \in 2 .. 1 + n /\ k - 1 \in Under(flat, i - 1)
  <2> TAKE i \in 2 .. 1 + n
  <2>1. i \in Int /\ i - 1 \in 1 .. n /\ t[i] = flat[i - 1]
    BY <1>1, <1>3, <1>5
  <2>2. flat[i - 1].size \in Nat \ {0} /\ (i - 1) + flat[i - 1].size <= n + 1
    BY <1>1, <1>3, <2>1, NodeFacts DEF Good, Forest
  <2>3. i + t[i].size <= n + 2
    BY <1>1, <2>1, <2>2
  <2>4. \A k \in Under(t, i) : k \in 2 .. 1 + n /\ k - 1 \in Under(flat, i - 1)
    BY <1>1, <2>1, <2>2, <2>3 DEF Under
  <2> QED BY <2>1, <2>2, <2>3, <2>4
<1>8. ASSUME NEW i \in 2 .. 1 + n PROVE Kept(i)
  <2> DEFINE m == i - 1
  <2>1. t[i] = flat[m] /\ m \in DOMAIN flat /\ i \in Int /\ i = m + 1
    BY <1>5
  <2>2. (snug => t[i].end <= len) /\ i + t[i].size <= Len(t) + 1
    BY <1>1, <1>2, <1>7, <2>1 DEF Good, Snug
  <2>3. strict => t[i].start <= t[i].end
    BY <2>1 DEF Good, Upright
  <2>4. ASSUME NEW k \in Under(t, i)
        PROVE  /\ k + t[k].size <= i + t[i].size
               /\ snug => t[k].end <= t[i].end
               /\ strict => t[i].start <= t[k].start
    <3>1. k \in 2 .. 1 + n /\ k - 1 \in Under(flat, m)
      BY <1>7, <2>4
    <3>2. t[k] = flat[k - 1] /\ t[k].size \in Nat /\ t[i].size \in Nat
      BY <1>5, <1>7, <3>1
    <3>3. /\ (k - 1) + flat[k - 1].size <= m + flat[m].size
          /\ snug => flat[k - 1].end <= flat[m].end
      BY <2>1, <3>1 DEF Good, Forest, Snug
    <3>4. strict => flat[m].start <= flat[k - 1].start
      BY <2>1, <3>1 DEF Good, Upright
    <3>5. k \in Int
      BY <3>1
    <3> HIDE DEF m
    <3>6. k + t[k].size <= i + t[i].size
      BY <2>1, <3>2, <3>3, <3>5 DEF m
    <3> QED BY <2>1, <3>2, <3>3, <3>4, <3>6
  <2> QED BY <2>2, <2>3, <2>4
<1>9. Kept(1)
  <2>1. Under(t, 1) = 2 .. 1 + n
    BY <1>1, <1>4 DEF Under
  <2>2. 1 + t[1].size <= Len(t) + 1
    BY <1>1, <1>2, <1>4
  <2>3. ASSUME NEW k \in 2 .. 1 + n
        PROVE  /\ k + t[k].size <= 1 + t[1].size
               /\ snug => t[k].end <= t[1].end
               /\ strict => t[1].start <= t[k].start
    <3>1. k + t[k].size <= n + 2 /\ 1 + t[1].size = n + 2
      BY <1>1, <1>4, <1>7
    <3>2. t[k] = flat[k - 1] /\ k - 1 \in DOMAIN flat
      BY <1>5
    <3> QED BY <1>4, <3>1, <3>2
  <2> QED BY <1>4, <2>1, <2>2, <2>3
<1>10. \A i \in DOMAIN t : Kept(i)
  <2> HIDE DEF Kept
  <2> QED BY <1>6, <1>8, <1>9
<1>11. Forest(t) /\ (snug => Snug(t, len)) /\ (strict => Upright(t))
  BY <1>2, <1>10 DEF Forest, Snug, Upright
<1>12. Rooted(t, len)
  BY <1>1, <1>2, <1>4 DEF Rooted
<1> QED BY <1>4, <1>11, <1>12 DEF Good, t

\* What is below the root.
LEMMA TailGood ==
    ASSUME NEW t, NEW len, NEW snug, NEW strict, Good(t, len, snug, strict), Len(t) > 0
    PROVE  /\ Good(Tail(t), len, snug, strict)
           /\ \A i \in DOMAIN Tail(t) : i + 1 \in DOMAIN t /\ Tail(t)[i] = t[i + 1]
<1> DEFINE u == Tail(t)
           n == Len(t) - 1
<1>1. t \in Seq(TreeNode) /\ t # << >> /\ Len(t) \in Nat /\ DOMAIN t = 1 .. Len(t) /\ n \in Nat
  BY DEF Good, Forest
<1>2. u \in Seq(TreeNode) /\ Len(u) = n /\ \A i \in 1 .. Len(u) : u[i] = t[i + 1]
  <2> HIDE DEF TreeNode
  <2> QED BY <1>1, HeadTailProperties
<1> HIDE DEF u
<1>3. /\ DOMAIN u = 1 .. n
      /\ \A i \in 1 .. n : i + 1 \in DOMAIN t /\ u[i] = t[i + 1] /\ u[i].size \in Nat \ {0}
  <2>1. DOMAIN u = 1 .. n /\ \A i \in 1 .. n : i + 1 \in DOMAIN t /\ u[i] = t[i + 1]
    BY <1>1, <1>2
  <2> QED BY <1>1, <2>1, NodeFacts
<1>4. ASSUME NEW i \in 1 .. n
      PROVE  /\ i + u[i].size <= n + 1
             /\ \A k \in Under(u, i) : k \in 1 .. n /\ k + 1 \in Under(t, i + 1)
  <2> DEFINE size == u[i].size
  <2>1. size \in Nat \ {0} /\ t[i + 1].size = size /\ (i + 1) + size <= Len(t) + 1
    BY <1>3 DEF Good, Forest
  <2>2. Under(u, i) = i + 1 .. i + size - 1 /\ Under(t, i + 1) = (i + 1) + 1 .. (i + 1) + size - 1
    BY <2>1 DEF Under
  <2> HIDE DEF size
  <2>3. /\ i + size <= n + 1
        /\ \A k \in i + 1 .. i + size - 1 :
             k \in 1 .. n /\ k + 1 \in (i + 1) + 1 .. (i + 1) + size - 1
    BY <1>1, <2>1
  <2> QED BY <2>2, <2>3 DEF size
<1>5. ASSUME NEW i \in 1 .. n, NEW k \in Under(u, i)
      PROVE  /\ k + u[k].size <= i + u[i].size
             /\ snug => u[k].end <= u[i].end
             /\ strict => u[i].start <= u[k].start
  <2>1. k \in 1 .. n /\ k + 1 \in Under(t, i + 1) /\ i + 1 \in DOMAIN t
    BY <1>3, <1>4, <1>5
  <2>2. /\ (k + 1) + t[k + 1].size <= (i + 1) + t[i + 1].size
        /\ snug => t[k + 1].end <= t[i + 1].end
        /\ strict => t[i + 1].start <= t[k + 1].start
    BY <2>1 DEF Good, Forest, Snug, Upright
  <2>3. u[k] = t[k + 1] /\ u[i] = t[i + 1] /\ u[k].size \in Nat /\ u[i].size \in Nat
    BY <1>3, <2>1
  <2>4. \A a, b, x, y \in Nat : (a + 1) + x <= (b + 1) + y => a + x <= b + y
    OBVIOUS
  <2>5. k \in Nat /\ i \in Nat
    BY <2>1
  <2> QED BY <2>2, <2>3, <2>4, <2>5
<1>6. \A i \in 1 .. n : (snug => u[i].end <= len) /\ (strict => u[i].start <= u[i].end)
  BY <1>3 DEF Good, Snug, Upright
<1>7. Good(u, len, snug, strict)
  BY <1>2, <1>3, <1>4, <1>5, <1>6 DEF Good, Forest, Snug, Upright
<1> QED BY <1>3, <1>7 DEF u

\* Subtrees one behind the other.
Chained(kids, len, snug, strict) ==
  /\ kids \in Seq(Seq(TreeNode)) /\ Len(kids) > 0
  /\ \A k \in 1 .. Len(kids) : Good(kids[k], len, snug, strict) /\ Rooted(kids[k], len)
  /\ \A k \in 2 .. Len(kids) : kids[k - 1][1].end <= kids[k][1].start

LEMMA RootIs ==
    ASSUME NEW t, NEW len, NEW snug, NEW strict, Good(t, len, snug, strict), Rooted(t, len)
    PROVE  /\ t \in Seq(TreeNode) /\ Len(t) > 0 /\ 1 \in DOMAIN t /\ t[1] \in TreeNode
           /\ t[1].start \in Nat /\ t[1].end \in Nat /\ t[1].start <= t[1].end /\ t[1].end <= len
<1>1. t \in Seq(TreeNode) /\ 1 \in 1 .. Len(t) /\ 1 \in DOMAIN t
  BY DEF Good, Forest, Rooted
<1> QED BY <1>1, NodeFacts DEF Rooted

\* The first of them begins first, and the last ends last.
LEMMA ChainOrder ==
    ASSUME NEW kids, NEW len, NEW snug, NEW strict, Chained(kids, len, snug, strict)
    PROVE  \A k \in 1 .. Len(kids) : \A i \in 1 .. k :
             kids[i][1].start <= kids[k][1].start /\ kids[i][1].end <= kids[k][1].end
<1> DEFINE n == Len(kids)
           Later(k) == \A i \in 1 .. k :
             kids[i][1].start <= kids[k][1].start /\ kids[i][1].end <= kids[k][1].end
<1>1. n \in Nat /\ n > 0 /\ n - 1 \in Nat
  BY DEF Chained
<1>2. \A k \in 1 .. n : /\ kids[k][1].start \in Nat /\ kids[k][1].end \in Nat
                        /\ kids[k][1].start <= kids[k][1].end
  <2> TAKE k \in 1 .. n
  <2>1. Good(kids[k], len, snug, strict) /\ Rooted(kids[k], len)
    BY DEF Chained
  <2> QED BY <2>1, RootIs
<1>3. Later(1)
  <2>1. 1 \in 1 .. n /\ \A i \in 1 .. 1 : i = 1
    BY <1>1
  <2> QED BY <1>2, <2>1
<1>4. ASSUME NEW k \in 2 .. n, Later(k - 1) PROVE Later(k)
  <2>1. k \in 1 .. n /\ k - 1 \in 1 .. n /\ kids[k - 1][1].end <= kids[k][1].start
    BY <1>1 DEF Chained
  <2>2. ASSUME NEW i \in 1 .. k
        PROVE  kids[i][1].start <= kids[k][1].start /\ kids[i][1].end <= kids[k][1].end
    <3>1. CASE i = k
      BY <1>2, <2>1, <3>1
    <3>2. CASE i # k
      <4>1. i \in 1 .. k - 1 /\ i \in 1 .. n
        BY <1>1, <3>2
      <4>2. kids[i][1].start <= kids[k - 1][1].start /\ kids[i][1].end <= kids[k - 1][1].end
        BY <1>4, <4>1
      <4>3. \A a, b, c, d, e, f \in Nat :
              a <= c /\ b <= d /\ c <= d /\ d <= e /\ e <= f => a <= e /\ b <= f
        OBVIOUS
      <4> HIDE DEF n
      <4> QED BY <1>2, <2>1, <4>1, <4>2, <4>3
    <3> QED BY <3>1, <3>2
  <2> QED BY <2>2
<1> HIDE DEF Later
<1>5. \A k \in 1 .. n : Later(k)
  <2> DEFINE T == {k \in 0 .. n - 1 : Later(k + 1)}
  <2>1. 0 \in T
    BY <1>1, <1>3
  <2>2. \A k \in 1 .. n - 1 : k - 1 \in T => k \in T
    <3> TAKE k \in 1 .. n - 1
    <3> HAVE k - 1 \in T
    <3>1. k + 1 \in 2 .. n /\ (k + 1) - 1 = k /\ (k - 1) + 1 = k
      BY <1>1
    <3>2. Later(k + 1)
      BY <1>4, <3>1
    <3> QED BY <3>2
  <2>3. 0 .. n - 1 \subseteq T
    <3> HIDE DEF T, n
    <3> QED BY <1>1, <2>1, <2>2, UpTo
  <2> TAKE k \in 1 .. n
  <2>4. k - 1 \in 0 .. n - 1 /\ (k - 1) + 1 = k
    BY <1>1
  <2>5. k - 1 \in T
    <3> HIDE DEF T
    <3> QED BY <2>3, <2>4
  <2> QED BY <2>4, <2>5
<1> QED BY <1>5 DEF Later, n

\* Subtrees for one parent, which spans what is from here to there.
Kin(kids, from, to, len, snug, strict) ==
  /\ kids \in Seq(Seq(TreeNode)) /\ Len(kids) > 0
  /\ from = kids[1][1].start /\ to \in Nat /\ from <= to /\ to <= len
  /\ \A k \in 1 .. Len(kids) :
       /\ Good(kids[k], len, snug, strict) /\ Rooted(kids[k], len)
       /\ snug => kids[k][1].end <= to
       /\ strict => from <= kids[k][1].start

LEMMA ChainKin ==
    ASSUME NEW kids, NEW len, NEW snug, NEW strict, Chained(kids, len, snug, strict),
           NEW m \in 1 .. Len(kids), snug => m = Len(kids)
    PROVE  Kin(kids, kids[1][1].start, kids[m][1].end, len, snug, strict)
<1>1. kids \in Seq(Seq(TreeNode)) /\ Len(kids) > 0 /\ Len(kids) \in Nat /\ 1 \in 1 .. m
  BY DEF Chained
<1>2. \A k \in 1 .. Len(kids) : Good(kids[k], len, snug, strict) /\ Rooted(kids[k], len)
  BY DEF Chained
<1>3. /\ kids[m][1].end \in Nat /\ kids[m][1].end <= len /\ kids[m][1].start \in Nat
      /\ kids[m][1].start <= kids[m][1].end
  BY <1>2, RootIs
<1>4. kids[1][1].start \in Nat /\ kids[1][1].start <= kids[m][1].start
  <2>1. 1 \in 1 .. Len(kids)
    BY <1>1
  <2> QED BY <1>1, <1>2, <2>1, ChainOrder, RootIs
<1>5. kids[1][1].start <= kids[m][1].end
  BY <1>3, <1>4
<1>6. ASSUME NEW k \in 1 .. Len(kids)
      PROVE  /\ snug => kids[k][1].end <= kids[m][1].end
             /\ kids[1][1].start <= kids[k][1].start
  <2>1. 1 \in 1 .. k /\ k \in 1 .. Len(kids)
    BY <1>1
  <2> QED BY <2>1, ChainOrder
<1> QED BY <1>1, <1>2, <1>3, <1>5, <1>6 DEF Kin

\* The nodes below a parent are within what its subtrees are in.
LEMMA KinWithin ==
    ASSUME NEW kids, NEW from, NEW to, NEW len, NEW snug, NEW strict,
           Kin(kids, from, to, len, snug, strict)
    PROVE  \A k \in 1 .. Len(kids) : \A m \in DOMAIN kids[k] :
             /\ snug => kids[k][m].end <= to
             /\ strict => from <= kids[k][m].start
<1> TAKE k \in 1 .. Len(kids)
<1> TAKE m \in DOMAIN kids[k]
<1>1. /\ Good(kids[k], len, snug, strict) /\ Rooted(kids[k], len)
      /\ snug => kids[k][1].end <= to
      /\ strict => from <= kids[k][1].start
  BY DEF Kin
<1>2. /\ snug => kids[k][m].end <= kids[k][1].end
      /\ strict => kids[k][1].start <= kids[k][m].start
  BY <1>1, RootBounds
<1>3. kids[k] \in Seq(TreeNode) /\ m \in 1 .. Len(kids[k]) /\ 1 \in 1 .. Len(kids[k])
  BY <1>1, RootIs
<1>4. /\ kids[k][m].end \in Nat /\ kids[k][1].end \in Nat
      /\ kids[k][m].start \in Nat /\ kids[k][1].start \in Nat
  BY <1>3, NodeFacts
<1>5. to \in Nat /\ from \in Nat
  <2>1. 1 \in 1 .. Len(kids) /\ Good(kids[1], len, snug, strict) /\ Rooted(kids[1], len)
    BY DEF Kin
  <2> QED BY <2>1, RootIs DEF Kin
<1> QED BY <1>1, <1>2, <1>4, <1>5

LEMMA ParentGood ==
    ASSUME NEW symbol \in Names, NEW kids, NEW from, NEW to, NEW state \in Nat, NEW by \in Nat,
           NEW ahead \in Names, NEW len \in Nat, NEW snug, NEW strict,
           Kin(kids, from, to, len, snug, strict)
    PROVE  OneTree(Parent(symbol, kids, to, state, by, ahead), from, to, len, snug, strict)
<1> DEFINE flat == FlattenSeq(kids)
           n == Len(kids)
           first == kids[1][1]
           last == kids[n][1]
           size == 1 + Len(flat)
           error == \E k \in DOMAIN kids : kids[k][1].error
           scans == <<first.scans[1], last.scans[2]>>
           root == [symbol |-> symbol, start |-> from, end |-> to, size |-> size,
                    state |-> state, extra |-> FALSE, error |-> error, dirty |-> FALSE,
                    was |-> <<from, to>>, by |-> by, scans |-> scans,
                    ahead |-> ahead, id |-> 0]
<1>1. /\ kids \in Seq(Seq(TreeNode)) /\ n \in Nat /\ n > 0 /\ from = first.start
      /\ to \in Nat /\ from <= to /\ to <= len
  BY DEF Kin
<1>2. Head(kids) = kids[1] /\ Last(kids) = kids[n]
  BY <1>1 DEF Last
<1>3. Parent(symbol, kids, to, state, by, ahead) = <<root>> \o flat
  BY <1>1, <1>2 DEF Parent
<1>4. first \in TreeNode /\ last \in TreeNode
  <2>1. \A k \in 1 .. n : Good(kids[k], len, snug, strict) /\ Rooted(kids[k], len)
    BY DEF Kin
  <2>2. 1 \in 1 .. n /\ n \in 1 .. n
    BY <1>1
  <2> QED BY <2>1, <2>2, RootIs
<1>5. /\ Good(flat, len, snug, strict)
      /\ \A i \in DOMAIN flat : \E k \in 1 .. n : \E m \in DOMAIN kids[k] : flat[i] = kids[k][m]
  <2>1. \A k \in 1 .. Len(kids) : Good(kids[k], len, snug, strict)
    BY DEF Kin
  <2>2. Len(kids) > 0
    BY <1>1
  <2> QED BY <1>1, <2>1, <2>2, FlattenGood
<1>6. Len(flat) \in Nat
  BY <1>5 DEF Good, Forest
<1>7. \A i \in DOMAIN flat : (snug => flat[i].end <= to) /\ (strict => from <= flat[i].start)
  <2> TAKE i \in DOMAIN flat
  <2>1. PICK k \in 1 .. n : \E m \in DOMAIN kids[k] : flat[i] = kids[k][m]
    BY <1>5
  <2>2. PICK m \in DOMAIN kids[k] : flat[i] = kids[k][m]
    BY <2>1
  <2>3. /\ snug => kids[k][m].end <= to
        /\ strict => from <= kids[k][m].start
    BY KinWithin
  <2> HIDE DEF flat
  <2> QED BY <2>2, <2>3
<1> HIDE DEF flat, first, last, n
<1>8. from \in Nat /\ first.scans \in Nat \X Nat /\ last.scans \in Nat \X Nat
  BY <1>1, <1>4 DEF TreeNode
<1>9. scans \in Nat \X Nat /\ error \in BOOLEAN /\ size \in Nat \ {0}
  BY <1>6, <1>8
<1> HIDE DEF scans, error, size
<1>10. root \in TreeNode
  BY <1>1, <1>8, <1>9 DEF TreeNode
<1>11. root.start = from /\ root.end = to /\ root.size = size
  OBVIOUS
<1> HIDE DEF root
<1>12. Heads(root, flat, len, snug, strict)
  BY <1>1, <1>7, <1>10, <1>11 DEF Heads, size
<1>13. /\ Good(<<root>> \o flat, len, snug, strict) /\ Rooted(<<root>> \o flat, len)
       /\ (<<root>> \o flat)[1] = root
  BY <1>5, <1>12, AboveGood
<1> DEFINE t == <<root>> \o flat
<1> HIDE DEF t
<1> QED BY <1>3, <1>11, <1>13 DEF t, OneTree

\* What a forest is does not depend on the rest of its nodes' fields.
Alike(t, u) ==
  /\ u \in Seq(TreeNode) /\ Len(u) = Len(t)
  /\ \A k \in 1 .. Len(t) : /\ u[k].start = t[k].start /\ u[k].end = t[k].end
                            /\ u[k].size = t[k].size

LEMMA AlikeGood ==
    ASSUME NEW t, NEW u, NEW len, NEW snug, NEW strict, Good(t, len, snug, strict), Alike(t, u)
    PROVE  Good(u, len, snug, strict) /\ (Rooted(t, len) => Rooted(u, len))
<1>1. /\ t \in Seq(TreeNode) /\ u \in Seq(TreeNode) /\ Len(u) = Len(t) /\ Len(t) \in Nat
      /\ DOMAIN t = 1 .. Len(t) /\ DOMAIN u = 1 .. Len(t)
  BY DEF Good, Forest, Alike
<1>2. \A k \in 1 .. Len(t) : /\ u[k].start = t[k].start /\ u[k].end = t[k].end
                             /\ u[k].size = t[k].size /\ Under(u, k) = Under(t, k)
  BY DEF Alike, Under
<1>3. \A i \in 1 .. Len(t) : \A k \in Under(t, i) : k \in 1 .. Len(t)
  BY <1>1, NodeFacts DEF Good, Forest, Under
<1>4. Forest(u)
  BY <1>1, <1>2, <1>3 DEF Good, Forest
<1>5. snug => Snug(u, len)
  BY <1>1, <1>2, <1>3 DEF Good, Snug
<1>6. strict => Upright(u)
  BY <1>1, <1>2, <1>3 DEF Good, Upright
<1>7. Rooted(t, len) => Rooted(u, len)
  BY <1>1, <1>2 DEF Rooted
<1> QED BY <1>4, <1>5, <1>6, <1>7 DEF Good

\* The subtree of a node of a forest.
Subtree(t, i) == [k \in 1 .. t[i].size |-> t[i + k - 1]]

LEMMA SubtreeGood ==
    ASSUME NEW t, NEW len, NEW snug, NEW strict, Good(t, len, snug, strict),
           NEW i \in DOMAIN t, t[i].start <= t[i].end, t[i].end <= len
    PROVE  /\ Good(Subtree(t, i), len, snug, strict) /\ Rooted(Subtree(t, i), len)
           /\ Subtree(t, i)[1] = t[i]
<1> DEFINE u == Subtree(t, i)
           n == t[i].size
<1>1. t \in Seq(TreeNode) /\ DOMAIN t = 1 .. Len(t) /\ Len(t) \in Nat /\ i \in Nat /\ i > 0
  BY DEF Good, Forest
<1>2. n \in Nat \ {0} /\ i + n <= Len(t) + 1
  BY <1>1, NodeFacts DEF Good, Forest
<1>3. \A k \in 1 .. n : i + k - 1 \in DOMAIN t /\ i + k - 1 \in Nat /\ t[i + k - 1] \in TreeNode
  BY <1>1, <1>2, NodeFacts
<1>4. \A k \in 1 .. n : u[k] = t[i + k - 1]
  BY DEF Subtree
<1>5. u \in Seq(TreeNode) /\ Len(u) = n /\ DOMAIN u = 1 .. n
  <2>1. u = [k \in 1 .. n |-> u[k]]
    BY DEF Subtree
  <2> HIDE DEF u, n
  <2>2. u \in [1 .. n -> TreeNode]
    BY <1>3, <1>4, <2>1
  <2> QED BY <1>2, <2>2
<1> HIDE DEF u
<1>6. ASSUME NEW k \in 1 .. n
      PROVE  /\ k + u[k].size <= n + 1 /\ u[k].size \in Nat \ {0}
             /\ \A l \in Under(u, k) : l \in 1 .. n /\ i + l - 1 \in Under(t, i + k - 1)
  <2>1. i + k - 1 + t[i + k - 1].size <= i + n
    <3>1. CASE k = 1
      BY <1>1, <1>2, <3>1
    <3>2. CASE k # 1
      <4>1. i + k - 1 \in Under(t, i)
        BY <1>1, <1>2, <3>2 DEF Under
      <4> QED BY <1>3, <4>1 DEF Good, Forest
    <3> QED BY <3>1, <3>2
  <2>2. t[i + k - 1].size \in Nat \ {0} /\ u[k].size = t[i + k - 1].size
    BY <1>1, <1>3, <1>4, NodeFacts
  <2>3. k + u[k].size <= n + 1
    BY <1>1, <1>2, <2>1, <2>2
  <2>4. \A l \in Under(u, k) : l \in 1 .. n /\ i + l - 1 \in Under(t, i + k - 1)
    <3> DEFINE m == u[k].size  q == i + k - 1
    <3>1. m \in Nat \ {0} /\ k + m <= n + 1 /\ n \in Nat /\ t[q].size = m /\ q \in Nat
      BY <1>2, <1>3, <2>2, <2>3
    <3>2. Under(u, k) = k + 1 .. k + m - 1 /\ Under(t, q) = q + 1 .. q + m - 1
      BY <3>1 DEF Under
    <3> HIDE DEF m, n
    <3>3. \A l \in k + 1 .. k + m - 1 : l \in 1 .. n /\ i + l - 1 \in q + 1 .. q + m - 1
      BY <1>1, <3>1
    <3> QED BY <3>2, <3>3
  <2> QED BY <2>2, <2>3, <2>4
<1>7. ASSUME NEW k \in DOMAIN u, NEW l \in Under(u, k)
      PROVE  /\ l + u[l].size <= k + u[k].size
             /\ snug => u[l].end <= u[k].end
             /\ strict => u[k].start <= u[l].start
  <2>1. /\ k \in 1 .. n /\ l \in 1 .. n /\ i + l - 1 \in Under(t, i + k - 1)
        /\ i + k - 1 \in DOMAIN t
    BY <1>3, <1>5, <1>6, <1>7
  <2>2. /\ i + l - 1 + t[i + l - 1].size <= i + k - 1 + t[i + k - 1].size
        /\ snug => t[i + l - 1].end <= t[i + k - 1].end
        /\ strict => t[i + k - 1].start <= t[i + l - 1].start
    BY <2>1 DEF Good, Forest, Snug, Upright
  <2> DEFINE a == u[l].size  b == u[k].size
  <2>3. a \in Nat /\ b \in Nat /\ u[l] = t[i + l - 1] /\ u[k] = t[i + k - 1]
    BY <1>4, <1>6, <2>1
  <2>4. l + a <= k + b
    <3>1. i + l - 1 + a <= i + k - 1 + b
      BY <2>2, <2>3
    <3>2. l \in Int /\ k \in Int
      BY <2>1
    <3>3. \A x, y \in Nat : i + l - 1 + x <= i + k - 1 + y => l + x <= k + y
      BY <1>1, <3>2
    <3> QED BY <2>3, <3>1, <3>3
  <2> QED BY <2>2, <2>3, <2>4
<1>8. \A k \in DOMAIN u : /\ k + u[k].size <= Len(u) + 1
                          /\ snug => u[k].end <= len
                          /\ strict => u[k].start <= u[k].end
  BY <1>3, <1>4, <1>5, <1>6 DEF Good, Snug, Upright
<1>9. Good(u, len, snug, strict)
  BY <1>5, <1>7, <1>8 DEF Good, Forest, Snug, Upright
<1>10. u[1] = t[i]
  <2>1. 1 \in 1 .. n /\ i + 1 - 1 = i
    BY <1>1, <1>2
  <2> QED BY <1>4, <2>1
<1>11. Rooted(u, len)
  BY <1>2, <1>5, <1>10 DEF Rooted
<1> QED BY <1>9, <1>10, <1>11 DEF u

-----------------------------------------------------------------------------
\* The stack of a run: subtrees, one behind the other, above the bottom.

Cell == [state : Nat, node : Seq(TreeNode)]

StackOK(stack, len, snug, strict) ==
  /\ stack \in Seq(Cell)
  /\ \A k \in 2 .. Len(stack) :
       Good(stack[k].node, len, snug, strict) /\ Rooted(stack[k].node, len)
  /\ \A k \in 3 .. Len(stack) : stack[k - 1].node[1].end <= stack[k].node[1].start

LastEnd(stack) == IF Len(stack) < 2 THEN 0 ELSE stack[Len(stack)].node[1].end

LEMMA StackFacts ==
    ASSUME NEW stack, NEW len, NEW snug, NEW strict, StackOK(stack, len, snug, strict)
    PROVE  /\ stack \in Seq(Cell) /\ Len(stack) \in Nat /\ DOMAIN stack = 1 .. Len(stack)
           /\ \A k \in 1 .. Len(stack) : stack[k].state \in Nat /\ stack[k].node \in Seq(TreeNode)
           /\ LastEnd(stack) \in Nat
<1>1. stack \in Seq(Cell) /\ Len(stack) \in Nat /\ DOMAIN stack = 1 .. Len(stack)
  BY DEF StackOK
<1>2. \A k \in 1 .. Len(stack) : stack[k].state \in Nat /\ stack[k].node \in Seq(TreeNode)
  <2>1. \A k \in 1 .. Len(stack) : stack[k] \in Cell
    BY <1>1
  <2>2. \A x \in Cell : x.state \in Nat /\ x.node \in Seq(TreeNode)
    BY DEF Cell
  <2> QED BY <2>1, <2>2
<1>3. LastEnd(stack) \in Nat
  <2>1. CASE Len(stack) < 2
    BY <2>1 DEF LastEnd
  <2>2. CASE ~ (Len(stack) < 2)
    <3>1. Len(stack) \in 2 .. Len(stack)
      BY <1>1, <2>2
    <3>2. Good(stack[Len(stack)].node, len, snug, strict) /\ Rooted(stack[Len(stack)].node, len)
      BY <3>1 DEF StackOK
    <3> QED BY <2>2, <3>2, RootIs DEF LastEnd
  <2> QED BY <2>1, <2>2
<1> QED BY <1>1, <1>2, <1>3

LEMMA StackWeaken ==
    ASSUME NEW stack, NEW len, NEW snug, NEW strict, StackOK(stack, len, snug, strict),
           NEW less, less => snug
    PROVE  StackOK(stack, len, less, strict)
<1>1. \A k \in 2 .. Len(stack) :
        Good(stack[k].node, len, less, strict) /\ Rooted(stack[k].node, len)
  BY DEF StackOK, Good
<1> QED BY <1>1 DEF StackOK

LEMMA StackPush ==
    ASSUME NEW stack, NEW len, NEW snug, NEW strict, StackOK(stack, len, snug, strict),
           Len(stack) > 0, NEW state \in Nat, NEW node,
           Good(node, len, snug, strict), Rooted(node, len), LastEnd(stack) <= node[1].start
    PROVE  LET new == Append(stack, [state |-> state, node |-> node])
           IN  /\ StackOK(new, len, snug, strict) /\ Len(new) > 0
               /\ LastEnd(new) = node[1].end
<1> DEFINE cell == [state |-> state, node |-> node]
           new == Append(stack, cell)
           n == Len(stack)
<1>1. stack \in Seq(Cell) /\ n \in Nat /\ DOMAIN stack = 1 .. n
  BY StackFacts
<1>2. node \in Seq(TreeNode) /\ cell \in Cell /\ cell.node = node
  BY RootIs DEF Cell
<1> HIDE DEF cell
<1>3. /\ new \in Seq(Cell) /\ Len(new) = n + 1
      /\ \A k \in 1 .. n : new[k] = stack[k]
      /\ new[n + 1] = cell
  BY <1>1, <1>2, AppendProperties
<1> HIDE DEF new
<1>4. \A k \in 2 .. Len(new) : Good(new[k].node, len, snug, strict) /\ Rooted(new[k].node, len)
  <2> TAKE k \in 2 .. Len(new)
  <2>1. CASE k = n + 1
    BY <1>2, <1>3, <2>1
  <2>2. CASE k # n + 1
    <3>1. k \in 2 .. n /\ k \in 1 .. n
      BY <1>1, <1>3, <2>2
    <3>2. Good(stack[k].node, len, snug, strict) /\ Rooted(stack[k].node, len)
      BY <3>1 DEF StackOK
    <3> QED BY <1>3, <3>1, <3>2
  <2> QED BY <2>1, <2>2
<1>5. \A k \in 3 .. Len(new) : new[k - 1].node[1].end <= new[k].node[1].start
  <2> TAKE k \in 3 .. Len(new)
  <2>1. CASE k = n + 1
    <3>1. k - 1 = n /\ n \in 1 .. n /\ ~ (n < 2)
      BY <1>1, <1>3, <2>1
    <3>2. LastEnd(stack) = stack[n].node[1].end
      BY <3>1 DEF LastEnd
    <3> QED BY <1>2, <1>3, <2>1, <3>1, <3>2
  <2>2. CASE k # n + 1
    <3>1. k \in 3 .. n /\ k \in 1 .. n /\ k - 1 \in 1 .. n
      BY <1>1, <1>3, <2>2
    <3>2. stack[k - 1].node[1].end <= stack[k].node[1].start
      BY <3>1 DEF StackOK
    <3> QED BY <1>3, <3>1, <3>2
  <2> QED BY <2>1, <2>2
<1>6. StackOK(new, len, snug, strict)
  BY <1>3, <1>4, <1>5 DEF StackOK
<1>7. LastEnd(new) = node[1].end /\ Len(new) > 0
  <2>1. ~ (Len(new) < 2) /\ Len(new) = n + 1 /\ Len(new) > 0
    BY <1>1, <1>3
  <2> QED BY <1>2, <1>3, <2>1 DEF LastEnd
<1> QED BY <1>6, <1>7 DEF new, cell

\* What a reduction takes off.
Kids(stack, base, count) == [k \in 1 .. count |-> stack[base + k].node]

LEMMA StackPop ==
    ASSUME NEW stack, NEW len, NEW snug, NEW strict, StackOK(stack, len, snug, strict),
           NEW count \in Nat \ {0}, Len(stack) - count >= 1
    PROVE  LET base == Len(stack) - count
               kids == Kids(stack, base, count)
               rest == SubSeq(stack, 1, base)
           IN  /\ StackOK(rest, len, snug, strict) /\ Len(rest) > 0
               /\ Chained(kids, len, snug, strict) /\ Len(kids) = count
               /\ LastEnd(rest) <= kids[1][1].start
               /\ kids[count][1].end = LastEnd(stack)
<1> DEFINE n == Len(stack)
           base == n - count
           kids == [k \in 1 .. count |-> stack[base + k].node]
           rest == SubSeq(stack, 1, base)
<1>1. stack \in Seq(Cell) /\ n \in Nat
  BY StackFacts
<1>2. base \in Nat /\ base >= 1 /\ base < n /\ base + count = n /\ base \in 1 .. n
  BY <1>1
<1>3. /\ rest \in Seq(Cell) /\ Len(rest) = base
      /\ \A k \in 1 .. base : rest[k] = stack[k]
  <2>1. \A k \in 1 .. base : stack[k] \in Cell
    BY <1>1, <1>2
  <2>2. /\ rest \in Seq(Cell) /\ Len(rest) = IF 1 <= base THEN base - 1 + 1 ELSE 0
        /\ \A k \in 1 .. base - 1 + 1 : rest[k] = stack[1 + k - 1]
    <3> HIDE DEF n, base
    <3> QED BY <1>1, <1>2, <2>1, SubSeqProperties
  <2> QED BY <1>2, <2>2
<1> HIDE DEF rest
<1>4. StackOK(rest, len, snug, strict) /\ Len(rest) > 0
  <2>1. \A k \in 2 .. base : k \in 2 .. n /\ k \in 1 .. base
    BY <1>1, <1>2
  <2>2. \A k \in 3 .. base : k \in 3 .. n /\ k \in 1 .. base /\ k - 1 \in 1 .. base
    BY <1>1, <1>2
  <2>3. \A k \in 2 .. Len(rest) : Good(rest[k].node, len, snug, strict) /\ Rooted(rest[k].node, len)
    <3> TAKE k \in 2 .. Len(rest)
    <3>1. rest[k] = stack[k] /\ k \in 2 .. n
      BY <1>3, <2>1
    <3> QED BY <3>1 DEF StackOK
  <2>4. \A k \in 3 .. Len(rest) : rest[k - 1].node[1].end <= rest[k].node[1].start
    <3> TAKE k \in 3 .. Len(rest)
    <3>1. rest[k] = stack[k] /\ rest[k - 1] = stack[k - 1] /\ k \in 3 .. n
      BY <1>3, <2>2
    <3> QED BY <3>1 DEF StackOK
  <2> QED BY <1>2, <1>3, <2>3, <2>4 DEF StackOK
<1>5. \A k \in 1 .. count : base + k \in 2 .. n /\ kids[k] = stack[base + k].node
  BY <1>1, <1>2
<1>6. \A k \in 1 .. count : /\ Good(kids[k], len, snug, strict) /\ Rooted(kids[k], len)
                            /\ kids[k] \in Seq(TreeNode)
  <2> TAKE k \in 1 .. count
  <2>1. Good(stack[base + k].node, len, snug, strict) /\ Rooted(stack[base + k].node, len)
    BY <1>5 DEF StackOK
  <2>2. kids[k] = stack[base + k].node
    BY <1>5
  <2> HIDE DEF kids
  <2> QED BY <2>1, <2>2, RootIs
<1>7. kids \in Seq(Seq(TreeNode)) /\ Len(kids) = count
  <2>1. kids \in [1 .. count -> Seq(TreeNode)]
    BY <1>6
  <2> HIDE DEF kids
  <2> QED BY <2>1
<1>8. \A k \in 2 .. count : kids[k - 1][1].end <= kids[k][1].start
  <2> TAKE k \in 2 .. count
  <2>1. k \in 1 .. count /\ k - 1 \in 1 .. count /\ base + k \in 3 .. n /\ base + (k - 1) = base + k - 1
    BY <1>1, <1>2
  <2>2. kids[k] = stack[base + k].node /\ kids[k - 1] = stack[base + k - 1].node
    BY <1>5, <2>1
  <2>3. stack[base + k - 1].node[1].end <= stack[base + k].node[1].start
    BY <2>1 DEF StackOK
  <2> HIDE DEF kids
  <2> QED BY <2>2, <2>3
<1>9. Chained(kids, len, snug, strict)
  <2> HIDE DEF kids
  <2>1. \A k \in 1 .. Len(kids) : Good(kids[k], len, snug, strict) /\ Rooted(kids[k], len)
    BY <1>6, <1>7
  <2>2. \A k \in 2 .. Len(kids) : kids[k - 1][1].end <= kids[k][1].start
    BY <1>7, <1>8
  <2>3. kids \in Seq(Seq(TreeNode)) /\ Len(kids) > 0
    BY <1>7
  <2> QED BY <2>1, <2>2, <2>3 DEF Chained
<1>10. LastEnd(rest) <= kids[1][1].start
  <2>0. 1 \in 1 .. count /\ kids[1] = stack[base + 1].node
    BY <1>5
  <2>1. CASE base < 2
    <3>1. LastEnd(rest) = 0
      BY <1>3, <2>1 DEF LastEnd
    <3>2. kids[1][1].start \in Nat
      <4> HIDE DEF kids
      <4> QED BY <1>6, <2>0, RootIs
    <3> HIDE DEF kids
    <3> QED BY <3>1, <3>2
  <2>2. CASE ~ (base < 2)
    <3>1. base + 1 \in 3 .. n /\ (base + 1) - 1 = base /\ base \in 1 .. base
      BY <1>1, <1>2, <2>2
    <3>2. stack[base].node[1].end <= stack[base + 1].node[1].start
      BY <3>1 DEF StackOK
    <3>3. LastEnd(rest) = stack[base].node[1].end
      BY <1>3, <2>2, <3>1 DEF LastEnd
    <3> HIDE DEF kids
    <3> QED BY <2>0, <3>2, <3>3
  <2> QED BY <2>1, <2>2
<1>11. kids[count][1].end = LastEnd(stack)
  <2>1. count \in 1 .. count /\ ~ (n < 2)
    BY <1>1, <1>2
  <2>2. kids[count] = stack[n].node
    BY <1>2, <1>5, <2>1
  <2> HIDE DEF kids
  <2> QED BY <2>1, <2>2 DEF LastEnd
<1> QED BY <1>4, <1>7, <1>9, <1>10, <1>11 DEF rest, Kids

-----------------------------------------------------------------------------
\* A run.  Its stack never ends behind the token, nor behind the place from
\* which the next one will be read.

Reliances == {"longerToken", "notUndone", "otherLookahead", "otherMode", "otherScanner",
              "rootExtra", "strayExtra"}

\* No parent has been made that does not span its last extras.
Calm(r) == "strayExtra" \notin r.met

RunRec ==
  [stack : Seq(Cell), pos : Nat, token : TokenSet, need : BOOLEAN, done : BOOLEAN,
   scans : Nat \X Nat, at : Nat, seen : Nat, cachedStart : Int, cached : SUBSET Nat,
   met : SUBSET Reliances]

JobOK(j, snug, strict) ==
  /\ j.text \in Seq(STRING) /\ j.root \in Names
  /\ Good(j.tree, Len(j.text), snug, strict)
  /\ j.fit \subseteq DOMAIN j.tree
  /\ \A i \in j.fit : j.tree[i].start < j.tree[i].end /\ j.tree[i].end <= Len(j.text)

InFront(r) == r.need => LastEnd(r.stack) <= r.pos

OnToken(r, len) ==
  ~ r.need =>
    /\ LastEnd(r.stack) <= r.token.start /\ r.token.start <= r.token.end /\ r.token.end <= len
    /\ r.token.symbol = "end" \/ r.pos = r.token.end

RunOK(j, r, snug, strict) ==
  /\ r \in RunRec
  /\ StackOK(r.stack, Len(j.text), snug /\ Calm(r), strict)
  /\ r.done \/ Len(r.stack) > 0
  /\ r.pos <= Len(j.text)
  /\ r.cached \subseteq {i \in j.fit : j.tree[i].start = r.cachedStart}
  /\ InFront(r) /\ OnToken(r, Len(j.text))

LEMMA RunFields ==
    ASSUME NEW r \in RunRec
    PROVE  /\ r.stack \in Seq(Cell) /\ r.pos \in Nat /\ r.token \in TokenSet
           /\ r.token.symbol \in Names /\ r.token.start \in Nat /\ r.token.end \in Nat
           /\ r.need \in BOOLEAN /\ r.done \in BOOLEAN
           /\ r.scans \in Nat \X Nat /\ r.scans[1] \in Nat /\ r.scans[2] \in Nat
           /\ r.at \in Nat /\ r.seen \in Nat /\ r.cachedStart \in Int
           /\ r.cached \subseteq Nat /\ r.met \subseteq Reliances
<1>1. /\ r.stack \in Seq(Cell) /\ r.pos \in Nat /\ r.token \in TokenSet
      /\ r.need \in BOOLEAN /\ r.done \in BOOLEAN /\ r.scans \in Nat \X Nat
      /\ r.at \in Nat /\ r.seen \in Nat /\ r.cachedStart \in Int
      /\ r.cached \subseteq Nat /\ r.met \subseteq Reliances
  BY DEF RunRec
<1>2. r.token.symbol \in Names /\ r.token.start \in Nat /\ r.token.end \in Nat
  BY <1>1 DEF TokenSet
<1>3. r.scans[1] \in Nat /\ r.scans[2] \in Nat
  BY <1>1
<1> QED BY <1>1, <1>2, <1>3

\* Changing what the run reads: the token, the place, and the scanner's state.
LEMMA TakeIs ==
    ASSUME NEW r \in RunRec, NEW read, read.token \in TokenSet, read.scan \in Nat
    PROVE  LET u == Take(r, read)
           IN  /\ u \in RunRec /\ u.token = read.token /\ u.pos = read.token.end
               /\ u.need = FALSE /\ u.stack = r.stack /\ u.done = r.done
               /\ u.cached = r.cached /\ u.cachedStart = r.cachedStart /\ u.met = r.met
<1> DEFINE token == read.token
           u == Take(r, read)
           scans == <<r.scans[2], read.scan>>
<1>1. token.end \in Nat
  BY DEF TokenSet
<1>2. scans \in Nat \X Nat
  BY RunFields
<1>3. u = [r EXCEPT !.token = token, !.pos = token.end, !.need = FALSE, !.scans = scans]
  BY DEF Take
<1> HIDE DEF scans, u
<1>4. u \in RunRec
  BY <1>1, <1>2, <1>3 DEF RunRec
<1>5. /\ u.token = token /\ u.pos = token.end /\ u.need = FALSE
      /\ u.stack = r.stack /\ u.done = r.done
      /\ u.cached = r.cached /\ u.cachedStart = r.cachedStart /\ u.met = r.met
  BY <1>3 DEF RunRec
<1> QED BY <1>4, <1>5 DEF u

LEMMA TakeOK ==
    ASSUME NEW j, NEW snug, NEW strict, JobOK(j, snug, strict), NEW r, RunOK(j, r, snug, strict),
           NEW at \in Nat, NEW read, Reads(j.text, at, read.token), read.scan \in Nat,
           LastEnd(r.stack) <= at
    PROVE  RunOK(j, Take(r, read), snug, strict)
<1> DEFINE u == Take(r, read)
<1>1. r \in RunRec /\ read.token \in TokenSet
  BY DEF RunOK, Reads
<1>2. /\ u \in RunRec /\ u.token = read.token /\ u.pos = read.token.end /\ u.need = FALSE
      /\ u.stack = r.stack /\ u.done = r.done
      /\ u.cached = r.cached /\ u.cachedStart = r.cachedStart /\ u.met = r.met
  BY <1>1, TakeIs
<1> HIDE DEF u
<1>3. LastEnd(r.stack) \in Nat /\ read.token.start \in Nat /\ read.token.end \in Nat
  BY <1>1, StackFacts DEF RunOK, TokenSet
<1>4. OnToken(u, Len(j.text))
  BY <1>2, <1>3 DEF OnToken, Reads
<1>5. InFront(u)
  BY <1>2 DEF InFront
<1> QED BY <1>2, <1>4, <1>5 DEF RunOK, Reads, Calm, u

LEMMA FetchOK ==
    ASSUME name \in DOMAIN Languages, NEW j, NEW snug, NEW strict, JobOK(j, snug, strict),
           NEW r, RunOK(j, r, snug, strict)
    PROVE  /\ RunOK(j, Fetch(j, r), snug, strict)
           /\ Fetch(j, r).need = FALSE
           /\ ~ r.done => ~ Fetch(j, r).done
<1> DEFINE read == Read(j.text, r.pos, Top(r), r.scans[2])
<1>1. r \in RunRec
  BY DEF RunOK
<1>2. CASE ~ r.need
  <2>1. Fetch(j, r) = r
    BY <1>2 DEF Fetch
  <2>2. r.need \in BOOLEAN
    BY <1>1, RunFields
  <2>3. r.need = FALSE
    BY <1>2, <2>2, Zenon
  <2> QED BY <2>1, <2>3
<1>3. CASE r.need
  <2>1. r.pos \in Nat /\ r.pos \in 0 .. Len(j.text) /\ r.scans[2] \in Nat /\ j.text \in Seq(STRING)
    BY <1>1, RunFields DEF RunOK, JobOK
  <2>2. Reads(j.text, r.pos, read.token) /\ read.scan \in Nat
    BY <2>1, ReadReads
  <2>4. LastEnd(r.stack) <= r.pos
    BY <1>3 DEF RunOK, InFront
  <2>5. Fetch(j, r) = Take(r, read)
    BY <1>3 DEF Fetch
  <2> HIDE DEF read
  <2>6. RunOK(j, Take(r, read), snug, strict)
    BY <2>1, <2>2, <2>4, TakeOK
  <2>7. read.token \in TokenSet
    BY <2>2 DEF Reads
  <2>8. Take(r, read).need = FALSE /\ Take(r, read).done = r.done
    BY <1>1, <2>2, <2>7, TakeIs
  <2> QED BY <2>5, <2>6, <2>8
<1> QED BY <1>2, <1>3

LEMMA SeekOK ==
    ASSUME NEW j, NEW snug, NEW strict, JobOK(j, snug, strict), NEW r, RunOK(j, r, snug, strict)
    PROVE  LET u == Seek(j, r)
           IN  /\ RunOK(j, u, snug, strict) /\ u.need = r.need /\ u.done = r.done
               /\ u.token = r.token
<1> DEFINE start == r.token.start
           rest == {i \in j.fit : i >= r.at}
           found == {i \in rest : j.tree[i].start = start}
           past == {i \in rest : \/ j.tree[i].start > start
                                 \/ j.tree[i].start < start /\ \E k \in found : k < i}
           stop == IF past = {} THEN Len(j.tree) + 1 ELSE Min(past)
           cached == {i \in found : i < stop}
           u == Seek(j, r)
<1>1. r \in RunRec
  BY DEF RunOK
<1>2. CASE start <= r.cachedStart
  BY <1>2 DEF Seek
<1>3. CASE ~ (start <= r.cachedStart)
  <2>1. u = [r EXCEPT !.cachedStart = start, !.at = stop, !.seen = stop, !.cached = cached]
    BY <1>3 DEF Seek
  <2>2. j.fit \subseteq Nat /\ Len(j.tree) + 1 \in Nat
    BY DEF JobOK, Good, Forest
  <2>3. stop \in Nat
    <3>1. past \subseteq Nat
      BY <2>2
    <3> HIDE DEF past
    <3> QED BY <2>2, <3>1, MinOf
  <2>4. cached \in SUBSET Nat /\ cached \subseteq {i \in j.fit : j.tree[i].start = start}
    BY <2>2
  <2>5. start \in Int
    BY <1>1, RunFields
  <2> HIDE DEF stop, cached, start, u
  <2>6. /\ u \in RunRec /\ u.need = r.need /\ u.done = r.done /\ u.token = r.token
        /\ u.stack = r.stack /\ u.pos = r.pos /\ u.cached = cached /\ u.cachedStart = start
        /\ u.met = r.met
    <3>1. u \in RunRec
      BY <1>1, <2>1, <2>3, <2>4, <2>5 DEF RunRec
    <3>2. /\ u.need = r.need /\ u.done = r.done /\ u.token = r.token
          /\ u.stack = r.stack /\ u.pos = r.pos /\ u.cached = cached /\ u.cachedStart = start
          /\ u.met = r.met
      BY <1>1, <2>1 DEF RunRec
    <3> QED BY <3>1, <3>2
  <2>7. RunOK(j, u, snug, strict)
    BY <2>4, <2>6 DEF RunOK, Calm, InFront, OnToken
  <2> QED BY <2>6, <2>7 DEF u
<1> QED BY <1>2, <1>3

-----------------------------------------------------------------------------
\* The rounds of a run, one kind of step after the other.

LEMMA TableActionIs ==
    ASSUME NEW a \in TableAction
    PROVE  /\ a.type = "shift" => a.state \in Nat /\ a.extra \in BOOLEAN
           /\ a.type = "reduce" => a.symbol \in Names /\ a.count \in Nat \ {0}
           /\ a.type \in {"shift", "reduce", "accept"}
<1>1. a.type = "shift" => a.state \in Nat /\ a.extra \in BOOLEAN
  BY DEF TableAction
<1>2. a.type = "reduce" => a.symbol \in STRING /\ a.count \in Nat \ {0}
  BY DEF TableAction
<1>3. a.type \in {"shift", "reduce", "accept"}
  BY DEF TableAction
<1> QED BY <1>1, <1>2, <1>3, NamesAre

LEMMA TopIs ==
    ASSUME NEW r \in RunRec, Len(r.stack) > 0
    PROVE  Top(r) \in Nat /\ Top(r) = r.stack[Len(r.stack)].state
<1>1. r.stack \in Seq(Cell) /\ Len(r.stack) \in 1 .. Len(r.stack)
  BY RunFields
<1>2. r.stack[Len(r.stack)] \in Cell
  BY <1>1
<1> QED BY <1>2 DEF Top, Last, Cell

LEMMA TargetIs ==
    ASSUME name \in DOMAIN Languages, NEW state \in Nat, NEW node \in TreeNode, NEW token,
           Accepts(state, node, token)
    PROVE  Target(state, node) \in Nat
<1>0. node.size \in Nat \ {0} /\ node.state \in Nat
  BY DEF TreeNode
<1> DEFINE extra == IsExtra(Actions(state, node.symbol))
<1>1. CASE node.size = 1 /\ ~ extra
  <2>1. Shifts(state, node.symbol) # {}
    BY <1>1 DEF Accepts
  <2> DEFINE a == CHOOSE x \in Shifts(state, node.symbol) : TRUE
  <2>2. a \in Shifts(state, node.symbol)
    BY <2>1
  <2>3. Target(state, node) = a.state
    BY <1>1 DEF Target
  <2> HIDE DEF a
  <2>4. a \in Range(Actions(state, node.symbol)) /\ a.type = "shift"
    BY <2>2 DEF Shifts
  <2>5. Actions(state, node.symbol) \in Seq(TableAction)
    BY ActionsAre
  <2>6. a \in TableAction
    BY <2>4, <2>5 DEF Range
  <2>7. a.state \in Nat
    BY <2>4, <2>6, TableActionIs
  <2> QED BY <2>3, <2>7
<1>2. CASE node.size = 1 /\ extra
  <2>1. Target(state, node) = state
    BY <1>2 DEF Target
  <2> QED BY <2>1
<1>3. CASE node.size > 1
  <2>1. Target(state, node) = node.state
    BY <1>3 DEF Target
  <2> QED BY <1>0, <2>1
<1> QED BY <1>0, <1>1, <1>2, <1>3

LEMMA PushIs ==
    ASSUME NEW r \in RunRec, NEW state \in Nat, NEW node \in Seq(TreeNode)
    PROVE  LET u == Push(r, state, node)
           IN  /\ u \in RunRec
               /\ u.stack = Append(r.stack, [state |-> state, node |-> node])
               /\ u.token = r.token /\ u.pos = r.pos /\ u.need = r.need /\ u.done = r.done
               /\ u.cached = r.cached /\ u.cachedStart = r.cachedStart /\ u.met = r.met
<1> DEFINE cell == [state |-> state, node |-> node]
           stack == Append(r.stack, cell)
           u == Push(r, state, node)
<1>1. stack \in Seq(Cell)
  <2>1. cell \in Cell /\ r.stack \in Seq(Cell)
    BY RunFields DEF Cell
  <2> HIDE DEF cell
  <2> QED BY <2>1, AppendProperties
<1>2. u = [r EXCEPT !.stack = stack]
  BY DEF Push
<1> HIDE DEF stack, u
<1>3. u \in RunRec
  BY <1>1, <1>2 DEF RunRec
<1>4. /\ u.stack = stack
      /\ u.token = r.token /\ u.pos = r.pos /\ u.need = r.need /\ u.done = r.done
      /\ u.cached = r.cached /\ u.cachedStart = r.cachedStart /\ u.met = r.met
  BY <1>2 DEF RunRec
<1> QED BY <1>3, <1>4 DEF u, stack

LEMMA OverlookedIs ==
    ASSUME NEW j, NEW r, NEW i
    PROVE  Overlooked(j, r, i) \subseteq Reliances \ {"strayExtra"}
BY DEF Overlooked, Reliances

LEMMA TakeOverOK ==
    ASSUME name \in DOMAIN Languages, NEW j, NEW snug, NEW strict, JobOK(j, snug, strict),
           NEW r, RunOK(j, r, snug, strict), r.need = FALSE, Len(r.stack) > 0,
           r.token.symbol # "end", NEW i \in Usable(j, r)
    PROVE  RunOK(j, TakeOver(j, r, i), snug, strict)
<1> DEFINE node == j.tree[i]
           state == Target(Top(r), node)
           read == ReadBehind(j, r, node, Top(r))
           ended == [r EXCEPT !.token = Token("end", node.end, node.end)]
           after == IF node.end = Len(j.text) THEN ended ELSE Take(r, read)
           pushed == Push(after, state, Subtree(j.tree, i))
           u == TakeOver(j, r, i)
<1>1. r \in RunRec /\ Top(r) \in Nat
  BY TopIs DEF RunOK
<1>2. /\ i \in j.fit /\ i \in DOMAIN j.tree /\ node.start = r.token.start
      /\ Accepts(Top(r), node, r.token)
  BY DEF Usable, Candidates, RunOK, JobOK
<1>3. /\ node \in TreeNode /\ node.start \in Nat /\ node.end \in Nat /\ node.start < node.end
      /\ node.end <= Len(j.text) /\ Len(j.text) \in Nat
  <2>1. j.tree \in Seq(TreeNode)
    BY DEF JobOK, Good, Forest
  <2> QED BY <1>2, <2>1, NodeFacts DEF JobOK
<1>4. state \in Nat
  BY <1>1, <1>2, <1>3, TargetIs
<1>5. u = [pushed EXCEPT !.met = @ \cup Overlooked(j, r, i)]
  BY DEF TakeOver, Subtree
<1> HIDE DEF u
<1> DEFINE kid == Subtree(j.tree, i)
           calm == snug /\ Calm(r)
<1>6. Good(j.tree, Len(j.text), calm, strict)
  BY DEF JobOK, Good
<1>7. /\ Good(kid, Len(j.text), calm, strict) /\ Rooted(kid, Len(j.text))
      /\ kid[1].start = node.start /\ kid[1].end = node.end
  <2> HIDE DEF calm
  <2> QED BY <1>2, <1>3, <1>6, SubtreeGood
<1> HIDE DEF calm
<1>8. /\ LastEnd(r.stack) <= r.token.start /\ r.token.start \in Nat
      /\ r.pos = r.token.end /\ r.pos \in Nat /\ r.pos <= Len(j.text)
  <2>1. LastEnd(r.stack) <= r.token.start /\ r.pos = r.token.end
    BY DEF RunOK, OnToken
  <2> QED BY <1>1, <2>1, RunFields DEF RunOK
\* The token behind the node.
<1>9. /\ after \in RunRec /\ after.stack = r.stack /\ after.need = FALSE /\ after.done = r.done
      /\ after.cached = r.cached /\ after.cachedStart = r.cachedStart /\ after.met = r.met
      /\ after.pos <= Len(j.text)
      /\ node.end <= after.token.start /\ after.token.start <= after.token.end
      /\ after.token.end <= Len(j.text)
      /\ after.token.symbol = "end" \/ after.pos = after.token.end
  <2>1. CASE node.end = Len(j.text)
    <3> DEFINE token == Token("end", node.end, node.end)
    <3>1. after = [r EXCEPT !.token = token]
      BY <2>1
    <3>2. /\ token \in TokenSet /\ token.symbol = "end" /\ token.start = node.end
          /\ token.end = node.end
      BY <1>3, NamesAre, TokenIs
    <3> HIDE DEF token, after, node
    <3>3. after \in RunRec
      BY <1>1, <3>1, <3>2 DEF RunRec
    <3>4. /\ after.stack = r.stack /\ after.need = r.need /\ after.done = r.done
          /\ after.cached = r.cached /\ after.cachedStart = r.cachedStart
          /\ after.pos = r.pos /\ after.token = token /\ after.met = r.met
      BY <1>1, <3>1 DEF RunRec
    <3> QED BY <1>3, <1>8, <3>2, <3>3, <3>4
  <2>2. CASE node.end # Len(j.text)
    <3> DEFINE at == IF node.end >= r.pos THEN node.end ELSE r.pos
    <3>1. after = Take(r, read)
      BY <2>2
    <3>2. at \in Nat /\ at \in 0 .. Len(j.text) /\ node.end <= at
      BY <1>3, <1>8
    <3>3. read = Read(j.text, at, Top(r), r.scans[2])
      BY DEF ReadBehind
    <3> HIDE DEF read, at
    <3>4. Reads(j.text, at, read.token) /\ read.scan \in Nat
      <4>1. j.text \in Seq(STRING) /\ r.scans[2] \in Nat
        BY <1>1, RunFields DEF JobOK
      <4> QED BY <3>2, <3>3, <4>1, ReadReads
    <3>5. read.token \in TokenSet /\ read.token.start \in Nat /\ read.token.end \in Nat
      BY <3>4 DEF Reads, TokenSet
    <3> HIDE DEF after, node
    <3>6. /\ after \in RunRec /\ after.token = read.token /\ after.pos = read.token.end
          /\ after.need = FALSE /\ after.stack = r.stack /\ after.done = r.done
          /\ after.cached = r.cached /\ after.cachedStart = r.cachedStart /\ after.met = r.met
      BY <1>1, <3>1, <3>4, <3>5, TakeIs
    <3> QED BY <1>3, <3>2, <3>4, <3>5, <3>6 DEF Reads
  <2> QED BY <2>1, <2>2
<1> HIDE DEF after, state, node, kid
<1>10. /\ pushed \in RunRec
       /\ pushed.stack = Append(r.stack, [state |-> state, node |-> kid])
       /\ pushed.token = after.token /\ pushed.pos = after.pos /\ pushed.need = FALSE
       /\ pushed.done = r.done /\ pushed.cached = r.cached /\ pushed.cachedStart = r.cachedStart
       /\ pushed.met = r.met
  <2>1. kid \in Seq(TreeNode)
    BY <1>7 DEF Good, Forest
  <2> QED BY <1>4, <1>9, <2>1, PushIs DEF kid
<1> HIDE DEF pushed
<1>11. /\ u \in RunRec /\ u.stack = pushed.stack /\ u.token = pushed.token /\ u.pos = pushed.pos
       /\ u.need = pushed.need /\ u.done = pushed.done /\ u.cached = pushed.cached
       /\ u.cachedStart = pushed.cachedStart /\ (Calm(u) <=> Calm(r))
  <2> DEFINE more == pushed.met \cup Overlooked(j, r, i)
  <2>1. more \in SUBSET Reliances
    BY <1>10, OverlookedIs, RunFields
  <2>2. u = [pushed EXCEPT !.met = more]
    BY <1>5
  <2> HIDE DEF more
  <2>3. u \in RunRec
    BY <1>10, <2>1, <2>2 DEF RunRec
  <2>4. /\ u.stack = pushed.stack /\ u.token = pushed.token /\ u.pos = pushed.pos
        /\ u.need = pushed.need /\ u.done = pushed.done /\ u.cached = pushed.cached
        /\ u.cachedStart = pushed.cachedStart /\ u.met = more
    BY <1>10, <2>2 DEF RunRec
  <2>5. Calm(u) <=> Calm(r)
    BY <1>10, <2>4, OverlookedIs DEF Calm, more
  <2> QED BY <2>3, <2>4, <2>5
<1>12. /\ StackOK(u.stack, Len(j.text), snug /\ Calm(u), strict) /\ Len(u.stack) > 0
       /\ LastEnd(u.stack) = node.end
  <2>1. StackOK(r.stack, Len(j.text), calm, strict)
    BY DEF RunOK, calm
  <2>2. LastEnd(r.stack) <= kid[1].start
    BY <1>2, <1>7, <1>8 DEF node
  <2>3. /\ StackOK(u.stack, Len(j.text), calm, strict) /\ Len(u.stack) > 0
        /\ LastEnd(u.stack) = node.end
    BY <1>4, <1>7, <1>10, <1>11, <2>1, <2>2, StackPush
  <2> QED BY <1>11, <2>3, StackWeaken DEF calm
<1>13. OnToken(u, Len(j.text)) /\ InFront(u)
  BY <1>9, <1>10, <1>11, <1>12 DEF OnToken, InFront
<1>14. u.pos <= Len(j.text)
  BY <1>9, <1>10, <1>11
<1>15. u.cached \subseteq {k \in j.fit : j.tree[k].start = u.cachedStart}
  BY <1>10, <1>11 DEF RunOK
<1> QED BY <1>11, <1>12, <1>13, <1>14, <1>15 DEF RunOK, u

\* A leaf for the token, and the next one is to be read.
LEMMA AskOK ==
    ASSUME NEW j, NEW snug, NEW strict, JobOK(j, snug, strict),
           NEW r, RunOK(j, r, snug, strict), r.need = FALSE, Len(r.stack) > 0,
           r.token.symbol # "end", NEW state \in Nat, NEW node,
           Good(node, Len(j.text), snug /\ Calm(r), strict), Rooted(node, Len(j.text)),
           node[1].start = r.token.start, node[1].end = r.token.end
    PROVE  RunOK(j, [Push(r, state, node) EXCEPT !.need = TRUE], snug, strict)
<1> DEFINE pushed == Push(r, state, node)
           u == [pushed EXCEPT !.need = TRUE]
<1>1. r \in RunRec /\ node \in Seq(TreeNode) /\ Len(j.text) \in Nat
  BY DEF RunOK, JobOK, Good, Forest
<1>2. /\ pushed \in RunRec
      /\ pushed.stack = Append(r.stack, [state |-> state, node |-> node])
      /\ pushed.token = r.token /\ pushed.pos = r.pos
      /\ pushed.done = r.done /\ pushed.cached = r.cached /\ pushed.cachedStart = r.cachedStart
      /\ pushed.met = r.met
  BY <1>1, PushIs
<1> HIDE DEF pushed
<1>3. /\ u \in RunRec /\ u.stack = pushed.stack /\ u.token = r.token /\ u.pos = r.pos
      /\ u.need = TRUE /\ u.done = r.done /\ u.cached = r.cached /\ u.cachedStart = r.cachedStart
      /\ u.met = r.met
  <2>1. u \in RunRec
    BY <1>2 DEF RunRec
  <2>2. /\ u.stack = pushed.stack /\ u.token = r.token /\ u.pos = r.pos
        /\ u.need = TRUE /\ u.done = r.done /\ u.cached = r.cached /\ u.cachedStart = r.cachedStart
        /\ u.met = r.met
    BY <1>2 DEF RunRec
  <2> QED BY <2>1, <2>2
<1> HIDE DEF u
<1>4. LastEnd(r.stack) <= r.token.start /\ r.pos = r.token.end
  BY DEF RunOK, OnToken
<1>5. /\ StackOK(u.stack, Len(j.text), snug /\ Calm(u), strict) /\ Len(u.stack) > 0
      /\ LastEnd(u.stack) = r.token.end
  <2> DEFINE calm == snug /\ Calm(r)
  <2>1. StackOK(r.stack, Len(j.text), calm, strict) /\ Good(node, Len(j.text), calm, strict)
    BY DEF RunOK
  <2>2. snug /\ Calm(u) <=> calm
    BY <1>3 DEF Calm
  <2> HIDE DEF calm
  <2>3. /\ StackOK(u.stack, Len(j.text), calm, strict) /\ Len(u.stack) > 0
        /\ LastEnd(u.stack) = r.token.end
    BY <1>2, <1>3, <1>4, <2>1, StackPush
  <2> QED BY <2>2, <2>3, StackWeaken
<1>6. r.token.end \in Nat
  BY <1>1, RunFields
<1>7. OnToken(u, Len(j.text)) /\ InFront(u)
  BY <1>3, <1>4, <1>5, <1>6 DEF OnToken, InFront
<1> QED BY <1>3, <1>5, <1>7 DEF RunOK, u, pushed

LEMMA OnTokenIs ==
    ASSUME NEW j, NEW snug, NEW strict, JobOK(j, snug, strict),
           NEW r, RunOK(j, r, snug, strict), r.need = FALSE
    PROVE  /\ r \in RunRec /\ Len(j.text) \in Nat
           /\ r.token \in TokenSet /\ r.token.start \in Nat /\ r.token.end \in Nat
           /\ r.token.start <= r.token.end /\ r.token.end <= Len(j.text)
           /\ LastEnd(r.stack) <= r.token.start /\ r.scans \in Nat \X Nat
<1>1. r \in RunRec /\ Len(j.text) \in Nat
  BY DEF RunOK, JobOK
<1> QED BY <1>1, RunFields DEF RunOK, OnToken

LEMMA ShiftOK ==
    ASSUME NEW j, NEW snug, NEW strict, JobOK(j, snug, strict),
           NEW r, RunOK(j, r, snug, strict), r.need = FALSE, Len(r.stack) > 0,
           r.token.symbol # "end", NEW act, act.state \in Nat, act.extra \in BOOLEAN
    PROVE  RunOK(j, Shift(r, act), snug, strict)
<1> DEFINE state == IF act.extra THEN Top(r) ELSE act.state
           node == Leaf(r.token, state, Top(r), r.scans, act.extra)
<1>1. /\ r \in RunRec /\ Len(j.text) \in Nat /\ r.token \in TokenSet /\ Top(r) \in Nat
      /\ r.token.start <= r.token.end /\ r.token.end <= Len(j.text) /\ r.scans \in Nat \X Nat
  BY OnTokenIs, TopIs
<1>2. state \in Nat
  BY <1>1
<1> HIDE DEF state
<1>3. /\ Good(node, Len(j.text), snug /\ Calm(r), strict) /\ Rooted(node, Len(j.text))
      /\ node[1].start = r.token.start /\ node[1].end = r.token.end
  <2> DEFINE token == r.token  scans == r.scans  top == Top(r)  len == Len(j.text)
             extra == act.extra  calm == snug /\ Calm(r)
  <2>1. /\ token \in TokenSet /\ top \in Nat /\ scans \in Nat \X Nat /\ len \in Nat
        /\ token.start <= token.end /\ token.end <= len /\ extra \in BOOLEAN
    BY <1>1
  <2>2. node = Leaf(token, state, top, scans, extra)
    OBVIOUS
  <2> HIDE DEF token, scans, top, len, extra, calm, node
  <2>3. /\ Good(node, len, calm, strict) /\ Rooted(node, len)
        /\ node[1].start = token.start /\ node[1].end = token.end
    <3>1. OneTree(Leaf(token, state, top, scans, extra), token.start, token.end, len, calm, strict)
      BY <1>2, <2>1, LeafGood
    <3> QED BY <2>2, <3>1 DEF OneTree
  <2> QED BY <2>3 DEF token, len, calm
<1> HIDE DEF node
<1>4. RunOK(j, [Push(r, state, node) EXCEPT !.need = TRUE], snug, strict)
  BY <1>2, <1>3, AskOK
<1>5. Shift(r, act) = [Push(r, state, node) EXCEPT !.need = TRUE]
  BY DEF Shift, node, state
<1> QED BY <1>4, <1>5

LEMMA MaxOf ==
    ASSUME NEW n \in Nat, NEW T, T \subseteq 0 .. n, T # {}
    PROVE  Max(T) \in T /\ \A x \in T : x <= Max(T)
<1>1. \E x \in T : \A y \in T : x >= y
  <2>1. PICK x \in T : \A y \in T : y <= x
    BY GreatestElement
  <2> QED BY <2>1
<1> QED BY <1>1 DEF Max

\* A reduction takes something off, with at least one that is no extra.
LEMMA FromIs ==
    ASSUME NEW stack, Len(stack) \in Nat, NEW count \in Nat \ {0}
    PROVE  /\ From(stack, count) \in {0} \cup 2 .. Len(stack)
           /\ From(stack, count) # 0 =>
                \E l \in From(stack, count) .. Len(stack) : ~ stack[l].node[1].extra
<1> DEFINE n == Len(stack)
           plain(k) == {l \in k .. n : ~ stack[l].node[1].extra}
           T == {0} \cup {k \in 2 .. n : Cardinality(plain(k)) = count}
           from == From(stack, count)
<1>1. T \subseteq 0 .. n /\ T # {}
  OBVIOUS
<1>2. from = Max(T)
  BY DEF From
<1>3. from \in T
  <2> HIDE DEF T, from
  <2> QED BY <1>1, <1>2, MaxOf
<1> HIDE DEF from
<1>4. from # 0 => plain(from) # {}
  <2> SUFFICES ASSUME from # 0, plain(from) = {} PROVE FALSE
    OBVIOUS
  <2>1. Cardinality(plain(from)) = count
    BY <1>3
  <2> HIDE DEF plain
  <2> QED BY <2>1, FS_EmptySet
<1> QED BY <1>3, <1>4 DEF from

LEMMA ReduceOK ==
    ASSUME name \in DOMAIN Languages, NEW j, NEW snug, NEW strict, JobOK(j, snug, strict),
           NEW r, RunOK(j, r, snug, strict), r.need = FALSE, Len(r.stack) > 0,
           NEW act, act.symbol \in Names, act.count \in Nat \ {0}
    PROVE  RunOK(j, ReduceTop(r, act), snug, strict)
<1> DEFINE n == Len(r.stack)
           base == From(r.stack, act.count) - 1
           count == n - base
           from == r.stack[base].state
           state == IF <<from, act.symbol>> \in DOMAIN lang.goto
                      THEN lang.goto[<<from, act.symbol>>] ELSE from
           kids == Kids(r.stack, base, count)
           plain == {k \in DOMAIN kids : ~ kids[k][1].extra}
           last == Max(plain)
           rest == SubSeq(r.stack, 1, base)
           node == Parent(act.symbol, kids, kids[last][1].end, state, Top(r), r.token.symbol)
           u == ReduceTop(r, act)
<1>0. /\ r \in RunRec /\ StackOK(r.stack, Len(j.text), snug /\ Calm(r), strict) /\ n \in Nat
      /\ Top(r) \in Nat /\ r.token.symbol \in Names /\ Len(j.text) \in Nat
  <2>1. /\ r \in RunRec /\ StackOK(r.stack, Len(j.text), snug /\ Calm(r), strict)
        /\ Len(j.text) \in Nat
    BY OnTokenIs DEF RunOK
  <2>2. n \in Nat
    BY <2>1, StackFacts
  <2> QED BY <2>1, <2>2, RunFields, TopIs
<1>1. /\ base = -1 \/ base \in 1 .. n - 1
      /\ base >= 1 => \E l \in base + 1 .. n : ~ r.stack[l].node[1].extra
  <2> DEFINE start == From(r.stack, act.count)
  <2>1. /\ start \in {0} \cup 2 .. n
        /\ start # 0 => \E l \in start .. n : ~ r.stack[l].node[1].extra
    BY <1>0, FromIs
  <2> HIDE DEF start
  <2>2. start - 1 = -1 \/ start - 1 \in 1 .. n - 1
    BY <1>0, <2>1
  <2>3. start - 1 >= 1 => start # 0 /\ (start - 1) + 1 = start
    BY <2>1
  <2> QED BY <2>1, <2>2, <2>3 DEF start
<1>2. CASE base < 1
  <2>1. u = [r EXCEPT !.stack = << >>, !.done = TRUE]
    BY <1>2 DEF ReduceTop
  <2> HIDE DEF u, base, n
  <2>2. u \in RunRec
    <3>1. << >> \in Seq(Cell)
      OBVIOUS
    <3> QED BY <1>0, <2>1, <3>1 DEF RunRec
  <2>3. /\ u.stack = << >> /\ u.done = TRUE /\ u.token = r.token /\ u.pos = r.pos
        /\ u.need = FALSE /\ u.cached = r.cached /\ u.cachedStart = r.cachedStart
    BY <1>0, <2>1 DEF RunRec
  <2>4. StackOK(u.stack, Len(j.text), snug /\ Calm(u), strict) /\ LastEnd(u.stack) = 0
    BY <2>3 DEF StackOK, LastEnd
  <2>5. OnToken(u, Len(j.text)) /\ InFront(u)
    <3>1. /\ r.token.start \in Nat /\ r.token.start <= r.token.end
          /\ r.token.end <= Len(j.text)
      BY OnTokenIs
    <3>2. r.token.symbol = "end" \/ r.pos = r.token.end
      BY DEF RunOK, OnToken
    <3> QED BY <2>3, <2>4, <3>1, <3>2 DEF OnToken, InFront
  <2> QED BY <2>2, <2>3, <2>4, <2>5 DEF RunOK, u
<1>3. CASE ~ (base < 1)
  <2> DEFINE stack == Append(rest, [state |-> state, node |-> node])
             more == r.met \cup (IF last < Len(kids) THEN {"strayExtra"} ELSE {})
             calm == snug /\ Calm(u)
  <2>1. u = [r EXCEPT !.stack = stack, !.met = more]
    BY <1>3 DEF ReduceTop, Kids
  <2>2. base \in 1 .. n - 1 /\ count \in Nat \ {0} /\ n - count = base /\ n - count >= 1
    <3> HIDE DEF base, n
    <3> QED BY <1>0, <1>1, <1>3
  <2>3. state \in Nat
    <3>1. base \in 1 .. n
      BY <1>0, <2>2
    <3>2. from \in Nat
      BY <1>0, <3>1, StackFacts
    <3>3. IsTable(lang)
      BY LanguagesAreTables DEF lang
    <3> QED BY <3>2, <3>3 DEF IsTable
  <2>4. /\ DOMAIN kids = 1 .. count
        /\ \A k \in 1 .. count : kids[k] = r.stack[base + k].node
    BY DEF Kids
  <2>5. plain \subseteq 1 .. count /\ plain # {}
    <3>1. PICK l \in base + 1 .. n : ~ r.stack[l].node[1].extra
      BY <1>1, <2>2
    <3>2. l - base \in 1 .. count /\ base + (l - base) = l
      <4> HIDE DEF base, n
      <4> QED BY <1>0, <2>2 DEF count
    <3> QED BY <2>4, <3>1, <3>2
  <2>6. last \in 1 .. count
    <3>1. plain \subseteq 0 .. count
      BY <2>2, <2>5
    <3> HIDE DEF plain, count
    <3> QED BY <2>2, <2>5, <3>1, MaxOf
  <2>7. u.met = more /\ u.stack = stack
    <3> HIDE DEF stack, more, u
    <3> QED BY <1>0, <2>1 DEF RunRec
  <2>8. calm => Calm(r) /\ ~ (last < Len(kids))
    BY <2>7 DEF Calm
  <2>9. more \in SUBSET Reliances
    BY <1>0, RunFields DEF Reliances
  <2>10. /\ u.done = r.done /\ u.token = r.token /\ u.pos = r.pos
         /\ u.need = r.need /\ u.cached = r.cached /\ u.cachedStart = r.cachedStart
    <3> HIDE DEF stack, more, u
    <3> QED BY <1>0, <2>1 DEF RunRec
  <2>11. StackOK(r.stack, Len(j.text), calm, strict)
    BY <1>0, <2>8, StackWeaken
  <2> HIDE DEF calm, state, last, plain, rest, more
  <2>12. /\ StackOK(rest, Len(j.text), calm, strict) /\ Len(rest) > 0
         /\ Chained(kids, Len(j.text), calm, strict) /\ Len(kids) = count
         /\ LastEnd(rest) <= kids[1][1].start
         /\ kids[count][1].end = LastEnd(r.stack)
    <3>1. count \in Nat \ {0} /\ Len(r.stack) - count = base /\ Len(r.stack) - count >= 1
      BY <2>2
    <3> HIDE DEF base, kids, count
    <3> DEFINE len == Len(j.text)  taken == Kids(r.stack, Len(r.stack) - count, count)
               kept == SubSeq(r.stack, 1, Len(r.stack) - count)
    <3>2. kids = taken /\ rest = kept
      BY <3>1 DEF rest, kids
    <3>3. StackOK(r.stack, len, calm, strict)
      BY <2>11
    <3> HIDE DEF len
    <3>4. /\ StackOK(kept, len, calm, strict) /\ Len(kept) > 0
          /\ Chained(taken, len, calm, strict) /\ Len(taken) = count
          /\ LastEnd(kept) <= taken[1][1].start
          /\ taken[count][1].end = LastEnd(r.stack)
      BY <3>1, <3>3, StackPop
    <3> HIDE DEF taken, kept
    <3> QED BY <3>2, <3>4 DEF len
  <2> HIDE DEF kids, count, base, n
  <2>13. last \in 1 .. Len(kids) /\ (calm => last = Len(kids))
    BY <2>2, <2>6, <2>8, <2>12
  <2>14. Kin(kids, kids[1][1].start, kids[last][1].end, Len(j.text), calm, strict)
    BY <2>12, <2>13, ChainKin
  <2>15. /\ Good(node, Len(j.text), calm, strict) /\ Rooted(node, Len(j.text))
         /\ node[1].start = kids[1][1].start /\ node[1].end = kids[last][1].end
    <3> DEFINE len == Len(j.text)  top == Top(r)  symbol == act.symbol  ahead == r.token.symbol
               first == kids[1][1].start  to == kids[last][1].end
    <3>1. /\ symbol \in Names /\ ahead \in Names /\ top \in Nat /\ len \in Nat
          /\ Kin(kids, first, to, len, calm, strict)
      BY <1>0, <2>14
    <3>2. node = Parent(symbol, kids, to, state, top, ahead)
      OBVIOUS
    <3> HIDE DEF len, top, symbol, ahead, first, to, node
    <3>3. OneTree(Parent(symbol, kids, to, state, top, ahead), first, to, len, calm, strict)
      BY <2>3, <3>1, ParentGood
    <3> QED BY <3>2, <3>3 DEF OneTree, len, first, to
  <2>16. node[1].end <= LastEnd(r.stack)
    <3>1. Len(kids) \in 1 .. Len(kids) /\ last \in 1 .. Len(kids)
      BY <2>2, <2>12, <2>13
    <3> QED BY <2>12, <2>15, <3>1, ChainOrder
  <2>17. node \in Seq(TreeNode) /\ node[1].end \in Nat /\ LastEnd(r.stack) \in Nat
    BY <2>11, <2>15, RootIs, StackFacts
  <2> HIDE DEF node
  <2>18. /\ StackOK(stack, Len(j.text), calm, strict) /\ Len(stack) > 0
         /\ LastEnd(stack) = node[1].end
    BY <2>3, <2>12, <2>15, StackPush
  <2>19. stack \in Seq(Cell)
    BY <2>18 DEF StackOK
  <2> HIDE DEF stack, u
  <2>20. u \in RunRec
    BY <1>0, <2>1, <2>9, <2>19 DEF RunRec
  <2>21. LastEnd(u.stack) \in Nat /\ LastEnd(u.stack) <= LastEnd(r.stack)
    BY <2>7, <2>16, <2>17, <2>18
  <2>22. OnToken(u, Len(j.text)) /\ InFront(u)
    <3>1. /\ LastEnd(r.stack) <= r.token.start /\ r.token.start \in Nat
          /\ r.token.start <= r.token.end /\ r.token.end <= Len(j.text)
      BY OnTokenIs
    <3>2. r.token.symbol = "end" \/ r.pos = r.token.end
      BY DEF RunOK, OnToken
    <3>3. LastEnd(u.stack) <= r.token.start
      BY <2>17, <2>21, <3>1
    <3> QED BY <2>10, <3>1, <3>2, <3>3 DEF OnToken, InFront
  <2>23. StackOK(u.stack, Len(j.text), snug /\ Calm(u), strict) /\ Len(u.stack) > 0
    BY <2>7, <2>18 DEF calm
  <2> QED BY <2>10, <2>20, <2>22, <2>23 DEF RunOK, u
<1> QED BY <1>1, <1>2, <1>3

LEMMA DoneOK ==
    ASSUME NEW j, NEW snug, NEW strict, NEW r, RunOK(j, r, snug, strict)
    PROVE  RunOK(j, [r EXCEPT !.done = TRUE], snug, strict)
<1> DEFINE u == [r EXCEPT !.done = TRUE]
<1>1. r \in RunRec
  BY DEF RunOK
<1>2. u \in RunRec
  BY <1>1 DEF RunRec
<1>3. /\ u.stack = r.stack /\ u.done = TRUE /\ u.token = r.token /\ u.pos = r.pos
      /\ u.need = r.need /\ u.cached = r.cached /\ u.cachedStart = r.cachedStart
      /\ u.met = r.met
  BY <1>1 DEF RunRec
<1> HIDE DEF u
<1> QED BY <1>2, <1>3 DEF RunOK, Calm, OnToken, InFront, u

LEMMA ActOK ==
    ASSUME name \in DOMAIN Languages, NEW j, NEW snug, NEW strict, JobOK(j, snug, strict),
           NEW r, RunOK(j, r, snug, strict), r.need = FALSE, Len(r.stack) > 0
    PROVE  RunOK(j, Act(r), snug, strict)
<1> DEFINE acts == Actions(Top(r), r.token.symbol)
           u == Act(r)
<1> SUFFICES RunOK(j, u, snug, strict)
  OBVIOUS
<1>1. /\ acts \in Seq(TableAction)
      /\ r.token.symbol = "end" => \A k \in DOMAIN acts : acts[k].type # "shift"
  BY ActionsAre
<1>2. r \in RunRec /\ Top(r) \in Nat
  BY TopIs DEF RunOK
<1>3. CASE acts = << >> /\ r.token.symbol = "end"
  <2>1. u = [r EXCEPT !.done = TRUE]
    BY <1>3 DEF Act
  <2> QED BY <2>1, DoneOK
<1>4. CASE acts = << >> /\ r.token.symbol # "end"
  <2> DEFINE node == ErrorLeaf(r.token.start, r.token.end, Top(r), r.scans)
             v == [Push(r, Top(r), node) EXCEPT !.need = TRUE]
  <2>1. u = v
    <3> SUFFICES Act(r) = v
      OBVIOUS
    <3> HIDE DEF v
    <3> QED BY <1>4 DEF Act, v
  <2>2. /\ r.token.start \in Nat /\ r.token.end \in Nat /\ r.scans \in Nat \X Nat
        /\ r.token.start <= r.token.end /\ r.token.end <= Len(j.text) /\ Len(j.text) \in Nat
    BY OnTokenIs
  <2>3. /\ Good(node, Len(j.text), snug /\ Calm(r), strict) /\ Rooted(node, Len(j.text))
        /\ node[1].start = r.token.start /\ node[1].end = r.token.end
    <3> DEFINE calm == snug /\ Calm(r)
    <3> DEFINE from == r.token.start  to == r.token.end  top == Top(r)  len == Len(j.text)
               scans == r.scans
    <3>1. /\ from \in Nat /\ to \in Nat /\ top \in Nat /\ scans \in Nat \X Nat
          /\ len \in Nat /\ from <= to /\ to <= len
      BY <1>2, <2>2
    <3>2. node = ErrorLeaf(from, to, top, scans)
      OBVIOUS
    <3> HIDE DEF node, from, to, top, len, scans, calm
    <3>3. OneTree(ErrorLeaf(from, to, top, scans), from, to, len, calm, strict)
      BY <3>1, ErrorLeafGood
    <3> QED BY <3>2, <3>3 DEF OneTree, from, to, len, calm
  <2> HIDE DEF node, u
  <2> QED BY <1>2, <1>4, <2>1, <2>3, AskOK
<1>5. CASE acts # << >>
  <2> DEFINE a == acts[1]
  <2>1. 1 \in DOMAIN acts /\ a \in TableAction
    BY <1>1, <1>5
  <2>2. CASE a.type = "shift"
    <3>1. u = Shift(r, a)
      BY <1>5, <2>2 DEF Act
    <3>2. a.state \in Nat /\ a.extra \in BOOLEAN /\ r.token.symbol # "end"
      BY <1>1, <2>1, <2>2, TableActionIs
    <3> HIDE DEF u, a
    <3> QED BY <3>1, <3>2, ShiftOK
  <2>3. CASE a.type = "reduce"
    <3>0. a.type # "shift"
      BY <2>3
    <3>1. u = ReduceTop(r, a)
      BY <1>5, <2>3, <3>0 DEF Act
    <3>2. a.symbol \in Names /\ a.count \in Nat \ {0}
      BY <2>1, <2>3, TableActionIs
    <3> HIDE DEF u, a
    <3> QED BY <3>1, <3>2, ReduceOK
  <2>4. CASE a.type = "accept"
    <3>0. a.type # "shift" /\ a.type # "reduce"
      BY <2>4
    <3>1. u = [r EXCEPT !.done = TRUE]
      BY <1>5, <2>4, <3>0 DEF Act
    <3> QED BY <3>1, DoneOK
  <2> QED BY <2>1, <2>2, <2>3, <2>4, TableActionIs
<1> QED BY <1>3, <1>4, <1>5

LEMMA RoundOK ==
    ASSUME name \in DOMAIN Languages, NEW j, NEW snug, NEW strict, JobOK(j, snug, strict),
           NEW r, RunOK(j, r, snug, strict)
    PROVE  RunOK(j, Round(j, r), snug, strict)
<1>1. CASE r.done
  BY <1>1 DEF Round
<1>2. CASE ~ r.done
  <2> DEFINE f == Fetch(j, r)
             g == Seek(j, f)
  <2>1. Round(j, r) = WithToken(j, f)
    BY <1>2 DEF Round
  <2>2. RunOK(j, f, snug, strict) /\ f.need = FALSE /\ ~ f.done
    BY <1>2, FetchOK
  <2> HIDE DEF f
  <2>3. Len(f.stack) > 0
    BY <1>2, <2>2 DEF RunOK
  <2>4. CASE f.token.symbol = "end"
    BY <2>1, <2>2, <2>3, <2>4, ActOK DEF WithToken
  <2>5. CASE f.token.symbol # "end"
    <3>1. WithToken(j, f) = TryReuse(j, g)
      BY <2>5 DEF WithToken
    <3>2. /\ RunOK(j, g, snug, strict) /\ g.need = FALSE /\ g.done = f.done
          /\ g.token = f.token
      BY <2>2, SeekOK
    <3> HIDE DEF g
    <3>3. Len(g.stack) > 0
      BY <1>2, <2>2, <3>2 DEF RunOK
    <3>4. CASE Usable(j, g) # {}
      <4> DEFINE i == Min(Usable(j, g))
      <4>1. Usable(j, g) \subseteq Nat
        BY <3>2, RunFields DEF Usable, Candidates, RunOK
      <4>2. i \in Usable(j, g)
        BY <3>4, <4>1, MinOf
      <4>3. TryReuse(j, g) = TakeOver(j, g, i)
        BY <3>4 DEF TryReuse
      <4> HIDE DEF i
      <4>4. RunOK(j, TakeOver(j, g, i), snug, strict)
        BY <2>5, <3>2, <3>3, <4>2, TakeOverOK
      <4> QED BY <2>1, <3>1, <4>3, <4>4
    <3>5. CASE Usable(j, g) = {}
      <4>1. TryReuse(j, g) = Act(g)
        BY <3>5 DEF TryReuse
      <4> QED BY <2>1, <3>1, <3>2, <3>3, <4>1, ActOK
    <3> QED BY <3>4, <3>5
  <2> QED BY <2>4, <2>5
<1> QED BY <1>1, <1>2

-----------------------------------------------------------------------------
\* A whole run, and the tree it makes.

LEMMA StartOK ==
    ASSUME name \in DOMAIN Languages, NEW j, NEW snug, NEW strict, JobOK(j, snug, strict)
    PROVE  RunOK(j, Start, snug, strict)
<1> DEFINE cell == [state |-> lang.initial, node |-> << >>]
           stack == <<cell>>
           token == Token(None, 0, 0)
           scans == <<0, 0>>
<1>1. cell \in Cell
  <2>1. IsTable(lang)
    BY LanguagesAreTables DEF lang
  <2>2. lang.initial \in Nat /\ << >> \in Seq(TreeNode)
    BY <2>1 DEF IsTable
  <2> HIDE DEF TreeNode
  <2> QED BY <2>2 DEF Cell
<1> HIDE DEF cell
<1>2. stack \in Seq(Cell) /\ Len(stack) = 1
  BY <1>1
<1>3. token \in TokenSet /\ scans \in Nat \X Nat /\ Len(j.text) \in Nat
  BY NamesAre, TokenIs DEF None, JobOK
<1>4. Start = [stack |-> stack, pos |-> 0, token |-> token, need |-> TRUE, done |-> FALSE,
               scans |-> scans, at |-> 1, seen |-> 0, cachedStart |-> -1, cached |-> {},
               met |-> {}]
  BY DEF Start, cell
<1> HIDE DEF stack, token, scans
<1>5. Start \in RunRec
  BY <1>2, <1>3, <1>4 DEF RunRec
<1>6. /\ Start.stack = stack /\ Start.pos = 0 /\ Start.need = TRUE /\ Start.cached = {}
  BY <1>4
<1>7. StackOK(stack, Len(j.text), snug /\ Calm(Start), strict) /\ LastEnd(stack) = 0
  BY <1>2 DEF StackOK, LastEnd
<1>8. OnToken(Start, Len(j.text)) /\ InFront(Start)
  BY <1>6, <1>7 DEF OnToken, InFront
<1>9. StackOK(Start.stack, Len(j.text), snug /\ Calm(Start), strict) /\ Len(Start.stack) > 0
  <2>1. Start.stack = stack
    BY <1>6
  <2>2. StackOK(stack, Len(j.text), snug /\ Calm(Start), strict) /\ Len(stack) > 0
    BY <1>2, <1>7
  <2> QED BY <2>1, <2>2, Zenon
<1>10. Start.pos <= Len(j.text)
  BY <1>3, <1>6
<1>11. Start.cached \subseteq {i \in j.fit : j.tree[i].start = Start.cachedStart}
  BY <1>6
<1> QED BY <1>5, <1>8, <1>9, <1>10, <1>11 DEF RunOK

LEMMA RunKeeps ==
    ASSUME name \in DOMAIN Languages, NEW j, NEW snug, NEW strict, JobOK(j, snug, strict)
    PROVE  RunOK(j, Run(j), snug, strict)
<1> DEFINE rounds == 4 * Len(j.text) + 4
           after[k \in 0 .. rounds] == IF k = 0 THEN Start ELSE Round(j, after[k - 1])
           S == {r \in RunRec : RunOK(j, r, snug, strict)}
<1>1. rounds \in Nat
  BY DEF JobOK
<1>2. Start \in S
  BY StartOK DEF RunOK
<1>3. \A r \in S : Round(j, r) \in S
  BY RoundOK DEF RunOK
<1> DEFINE t == [r \in S |-> Round(j, r)]
<1>4. t \in [S -> S] /\ \A r \in S : t[r] = Round(j, r)
  <2> HIDE DEF S
  <2> QED BY <1>3
<1> HIDE DEF S, t, rounds
<1>5. Repeats(S, Start, t, rounds)
  BY <1>1, <1>2, <1>4, IterationExists
<1>6. PICK g \in [0 .. rounds -> S] :
         g[0] = Start /\ \A k \in 1 .. rounds : g[k] = t[g[k - 1]]
  BY <1>5, Zenon DEF Repeats
<1>7. g = [k \in 0 .. rounds |-> IF k = 0 THEN Start ELSE Round(j, g[k - 1])]
  <2>1. ASSUME NEW k \in 1 .. rounds PROVE g[k] = Round(j, g[k - 1])
    <3>1. g[k - 1] \in S
      BY <1>1
    <3> QED BY <3>1, <1>4, <1>6
  <2> QED BY <1>1, <1>6, <2>1
<1>8. after = [k \in 0 .. rounds |-> IF k = 0 THEN Start ELSE Round(j, after[k - 1])]
  BY <1>7, Zenon
<1>9. Run(j) = after[rounds]
  BY DEF Run, rounds
<1> HIDE DEF after
<1>10. after[0] = Start /\ \A k \in 1 .. rounds : after[k] = Round(j, after[k - 1])
  BY <1>1, <1>8
<1>11. 0 .. rounds \subseteq {k \in 0 .. rounds : after[k] \in S}
  <2> DEFINE T == {k \in 0 .. rounds : after[k] \in S}
  <2>1. 0 \in T
    BY <1>1, <1>2, <1>10
  <2>2. \A k \in 1 .. rounds : k - 1 \in T => k \in T
    BY <1>1, <1>3, <1>10
  <2> HIDE DEF T
  <2>3. 0 .. rounds \subseteq T
    BY <1>1, <2>1, <2>2, UpTo
  <2> QED BY <2>3 DEF T
<1>12. after[rounds] \in S
  BY <1>1, <1>11
<1> QED BY <1>9, <1>12 DEF S

LEMMA WrapGood ==
    ASSUME NEW symbol \in Names, NEW kids, NEW error \in BOOLEAN, NEW from,
           NEW len \in Nat, NEW snug, NEW strict,
           Kin(kids, from, kids[Len(kids)][1].end, len, snug, strict)
    PROVE  Good(Wrap(symbol, kids, error), len, snug, strict)
<1> DEFINE to == kids[Len(kids)][1].end
           t == Parent(symbol, kids, to, 0, 0, None)
           node == [t[1] EXCEPT !.error = @ \/ error]
           u == [t EXCEPT ![1] = node]
<1>1. Good(t, len, snug, strict) /\ Rooted(t, len)
  <2>1. None \in Names
    BY NamesAre DEF None
  <2> HIDE DEF to
  <2>2. OneTree(t, from, to, len, snug, strict)
    BY <2>1, ParentGood DEF to
  <2> QED BY <2>2 DEF OneTree
<1>2. t \in Seq(TreeNode) /\ t[1] \in TreeNode /\ 1 \in DOMAIN t /\ DOMAIN t = 1 .. Len(t)
  BY <1>1, RootIs
<1>3. Wrap(symbol, kids, error) = u
  <2>1. Last(kids) = kids[Len(kids)]
    BY DEF Last
  <2> QED BY <2>1 DEF Wrap
<1> HIDE DEF t
<1>4. /\ node \in TreeNode /\ node.start = t[1].start /\ node.end = t[1].end
      /\ node.size = t[1].size
  <2> DEFINE x == t[1]  e == x.error \/ error
  <2>1. x \in TreeNode /\ e \in BOOLEAN
    BY <1>2
  <2>2. node = [x EXCEPT !.error = e]
    OBVIOUS
  <2> HIDE DEF x, e, node
  <2>3. node \in TreeNode
    BY <2>1, <2>2 DEF TreeNode
  <2>4. node.start = x.start /\ node.end = x.end /\ node.size = x.size
    BY <2>1, <2>2 DEF TreeNode
  <2> QED BY <2>3, <2>4 DEF x
<1> HIDE DEF node
<1>5. u \in Seq(TreeNode) /\ Len(u) = Len(t) /\ u[1] = node
      /\ \A k \in 1 .. Len(t) : k # 1 => u[k] = t[k]
  BY <1>2, <1>4, ExceptSeq
<1> HIDE DEF u
<1>6. Alike(t, u)
  BY <1>4, <1>5 DEF Alike
<1> QED BY <1>1, <1>3, <1>6, AlikeGood

\* A node and the extras around it, which are put into it.
LEMMA FoldedGood ==
    ASSUME NEW kids, NEW len, NEW snug, NEW strict, Chained(kids, len, snug, strict),
           NEW k \in 1 .. Len(kids)
    PROVE  OneTree(Folded(kids, k), kids[1][1].start, kids[Len(kids)][1].end, len, snug, strict)
<1> DEFINE n == Len(kids)
           from == kids[1][1].start  to == kids[n][1].end
           inner == [kids EXCEPT ![k] = Tail(@)]
           under == FlattenSeq(inner)
           size == 1 + Len(under)
           x == kids[k][1]
           root == [x EXCEPT !.start = from, !.end = to, !.size = size]
<1>1. kids \in Seq(Seq(TreeNode)) /\ n \in Nat /\ n > 0 /\ n \in 1 .. n
  BY DEF Chained
<1>2. Kin(kids, from, to, len, snug, strict)
  BY <1>1, ChainKin
<1>3. \A l \in 1 .. n : Good(kids[l], len, snug, strict) /\ Rooted(kids[l], len)
  BY DEF Chained
<1>4. /\ Good(Tail(kids[k]), len, snug, strict) /\ Tail(kids[k]) \in Seq(TreeNode)
      /\ \A i \in DOMAIN Tail(kids[k]) : i + 1 \in DOMAIN kids[k] /\ Tail(kids[k])[i] = kids[k][i + 1]
  <2>1. Good(kids[k], len, snug, strict) /\ Len(kids[k]) > 0
    BY <1>3 DEF Rooted
  <2>2. /\ Good(Tail(kids[k]), len, snug, strict)
        /\ \A i \in DOMAIN Tail(kids[k]) : i + 1 \in DOMAIN kids[k] /\ Tail(kids[k])[i] = kids[k][i + 1]
    BY <2>1, TailGood
  <2> QED BY <2>2 DEF Good, Forest
<1>5. /\ inner \in Seq(Seq(TreeNode)) /\ Len(inner) = n
      /\ \A l \in 1 .. n : inner[l] = IF l = k THEN Tail(kids[k]) ELSE kids[l]
  <2> DEFINE S == Seq(TreeNode)  tail == Tail(kids[k])
  <2>1. kids \in Seq(S) /\ tail \in S /\ inner = [kids EXCEPT ![k] = tail]
    BY <1>1, <1>4
  <2> HIDE DEF S, tail, inner
  <2> QED BY <2>1, ExceptSeq DEF S, tail
<1> HIDE DEF inner
<1>6. /\ Good(under, len, snug, strict)
      /\ \A i \in DOMAIN under : \E l \in 1 .. n : \E m \in DOMAIN inner[l] : under[i] = inner[l][m]
  <2>1. \A l \in 1 .. Len(inner) : Good(inner[l], len, snug, strict)
    BY <1>3, <1>4, <1>5
  <2>2. inner \in Seq(Seq(TreeNode)) /\ Len(inner) > 0 /\ Len(inner) = n
    BY <1>1, <1>5
  <2>3. /\ Good(FlattenSeq(inner), len, snug, strict)
        /\ \A i \in DOMAIN FlattenSeq(inner) : \E l \in 1 .. Len(inner) :
             \E m \in DOMAIN inner[l] : FlattenSeq(inner)[i] = inner[l][m]
    BY <2>1, <2>2, FlattenGood
  <2> HIDE DEF n
  <2> QED BY <2>2, <2>3
<1> HIDE DEF under
<1>7. ASSUME NEW i \in DOMAIN under
      PROVE  /\ snug => under[i].end <= to
             /\ strict => from <= under[i].start
  <2>1. PICK l \in 1 .. n : \E m \in DOMAIN inner[l] : under[i] = inner[l][m]
    BY <1>6
  <2>2. PICK m \in DOMAIN inner[l] : under[i] = inner[l][m]
    BY <2>1
  <2>3. \E o \in DOMAIN kids[l] : under[i] = kids[l][o]
    <3>1. CASE l = k
      BY <1>4, <1>5, <2>2, <3>1
    <3>2. CASE l # k
      BY <1>5, <2>2, <3>2
    <3> QED BY <3>1, <3>2
  <2>4. PICK o \in DOMAIN kids[l] : under[i] = kids[l][o]
    BY <2>3
  <2>5. /\ snug => kids[l][o].end <= to
        /\ strict => from <= kids[l][o].start
    BY <1>2, KinWithin
  <2> QED BY <2>4, <2>5
<1>8. x \in TreeNode /\ from \in Nat /\ to \in Nat /\ from <= to /\ to <= len
  <2>1. 1 \in 1 .. n
    BY <1>1
  <2> QED BY <1>1, <1>2, <1>3, <2>1, RootIs DEF Kin
<1>9. Len(under) \in Nat
  BY <1>6 DEF Good, Forest
<1>10. Folded(kids, k) = <<root>> \o under
  <2>1. Head(kids) = kids[1] /\ Last(kids) = kids[n]
    BY <1>1 DEF Last
  <2> QED BY <2>1 DEF Folded, under, inner
<1> HIDE DEF x, from, to
<1>11. size \in Nat \ {0}
  BY <1>9
<1> HIDE DEF size
<1>12. root \in TreeNode /\ root.start = from /\ root.end = to /\ root.size = size
  BY <1>8, <1>11 DEF TreeNode
<1> HIDE DEF root
<1>13. Heads(root, under, len, snug, strict)
  BY <1>7, <1>8, <1>12 DEF Heads, size
<1>14. /\ Good(<<root>> \o under, len, snug, strict) /\ Rooted(<<root>> \o under, len)
       /\ (<<root>> \o under)[1] = root
  BY <1>6, <1>13, AboveGood
<1> DEFINE t == <<root>> \o under
<1> HIDE DEF t
<1> QED BY <1>10, <1>12, <1>14 DEF t, OneTree, from, to, n

LEMMA ResultGood ==
    ASSUME NEW j, NEW snug, NEW strict, JobOK(j, snug, strict), NEW r, RunOK(j, r, snug, strict)
    PROVE  Good(Result(j, r), Len(j.text), snug /\ Calm(r), strict)
<1> DEFINE n == Len(r.stack)
           kids == [k \in 1 .. n - 1 |-> r.stack[k + 1].node]
           last == Last(kids)[1].symbol
           expected == IF j.root = None THEN last ELSE j.root
           others == {k \in DOMAIN kids : ~ kids[k][1].extra}
           root == Max(others)
           tree == Result(j, r)
           len == Len(j.text)
           calm == snug /\ Calm(r)
<1> SUFFICES Good(tree, len, calm, strict)
  OBVIOUS
<1>1. /\ StackOK(r.stack, len, calm, strict) /\ n \in Nat /\ len \in Nat
      /\ r.stack \in Seq(Cell)
  BY StackFacts DEF RunOK, JobOK
<1> HIDE DEF calm
<1>2. Good(ErrorTree(j.text), len, calm, strict)
  <2>1. ErrorTree(j.text) = ErrorLeaf(0, len, 0, <<0, 0>>)
    BY DEF ErrorTree
  <2>2. <<0, 0>> \in Nat \X Nat /\ 0 <= len /\ len <= len
    BY <1>1
  <2> HIDE DEF len, n, kids, last, expected, tree
  <2>3. OneTree(ErrorLeaf(0, len, 0, <<0, 0>>), 0, len, len, calm, strict)
    <3>1. len \in Nat /\ 0 \in Nat
      BY <1>1
    <3> QED BY <3>1, <2>2, ErrorLeafGood
  <2> QED BY <2>1, <2>3 DEF OneTree
<1>3. Good(<< >>, len, calm, strict)
  BY DEF Good, Forest, Snug, Upright
<1>4. CASE r.stack = << >>
  BY <1>2, <1>4 DEF Result
<1>5. CASE n = 1
  <2>1. r.stack # << >>
    BY <1>5
  <2>2. tree = << >> \/ tree = ErrorTree(j.text)
    BY <1>5, <2>1 DEF Result
  <2> QED BY <1>2, <1>3, <2>2
<1>6. CASE n >= 2
  <2>1. r.stack # << >> /\ n # 1 /\ n - 1 \in Nat \ {0} /\ 1 = n - (n - 1) /\ (n # 2 => n > 2)
    <3>1. n # 1 /\ n - 1 \in Nat \ {0} /\ 1 = n - (n - 1) /\ n # 0 /\ (n # 2 => n > 2)
      <4> HIDE DEF n
      <4> QED BY <1>1, <1>6
    <3>2. r.stack # << >>
      BY <3>1
    <3> QED BY <3>1, <3>2
  <2>2. kids = Kids(r.stack, 1, n - 1)
    <3>1. \A k \in 1 .. n - 1 : k + 1 = 1 + k
      OBVIOUS
    <3> QED BY <3>1 DEF Kids
  <2>3. Chained(kids, len, calm, strict) /\ Len(kids) = n - 1
    <3> DEFINE count == n - 1
    <3>1. count \in Nat \ {0} /\ Len(r.stack) - count = 1
      BY <2>1
    <3>2. kids = Kids(r.stack, Len(r.stack) - count, count)
      BY <2>2, <3>1
    <3>3. Len(r.stack) - count >= 1
      BY <3>1
    <3> HIDE DEF kids, count, len, n
    <3>4. Chained(kids, len, calm, strict) /\ Len(kids) = count
      BY <1>1, <3>1, <3>2, <3>3, StackPop
    <3> QED BY <3>4 DEF count
  <2>4. /\ kids \in Seq(Seq(TreeNode)) /\ Last(kids) = kids[n - 1] /\ n - 1 \in 1 .. Len(kids)
        /\ DOMAIN kids = 1 .. n - 1
    <3> HIDE DEF kids, len
    <3> QED BY <1>1, <1>6, <2>3 DEF Chained, Last
  <2>5. \A k \in 1 .. n - 1 : /\ Good(kids[k], len, calm, strict) /\ Rooted(kids[k], len)
                              /\ kids[k][1] \in TreeNode
    <3>1. \A k \in 1 .. n - 1 : Good(kids[k], len, calm, strict) /\ Rooted(kids[k], len)
      <4> HIDE DEF kids, len, n
      <4> QED BY <2>3 DEF Chained
    <3> HIDE DEF kids, len, n
    <3> QED BY <3>1, RootIs
  <2>6. last \in Names
    <3> HIDE DEF kids, n, len
    <3> QED BY <2>3, <2>4, <2>5 DEF TreeNode
  <2>7. expected \in Names
    BY <2>6 DEF JobOK
  <2> DEFINE from == kids[1][1].start
  <2>8. Kin(kids, from, kids[Len(kids)][1].end, len, calm, strict)
    <3> HIDE DEF kids, len, n
    <3> QED BY <2>3, <2>4, ChainKin
  <2>9. \A error \in BOOLEAN : Good(Wrap(expected, kids, error), len, calm, strict)
    <3> HIDE DEF kids, len, n, expected
    <3> QED BY <1>1, <2>7, <2>8, WrapGood
  <2>10. CASE n = 2 /\ last = expected
    <3>1. tree = kids[1]
      BY <2>1, <2>10 DEF Result
    <3>2. 1 \in 1 .. n - 1
      BY <2>10
    <3> HIDE DEF tree, kids, len
    <3> QED BY <2>5, <3>1, <3>2
  <2>11. CASE n = 2 /\ last # expected
    <3>1. tree = Wrap(expected, kids, FALSE)
      BY <2>1, <2>11 DEF Result
    <3> HIDE DEF tree, kids, len, expected
    <3> QED BY <2>9, <3>1
  <2>12. CASE n # 2 /\ others # {root}
    <3>1. tree = Wrap(expected, kids, TRUE)
      BY <2>1, <2>12 DEF Result
    <3> HIDE DEF tree, kids, len, expected
    <3> QED BY <2>9, <3>1
  <2>13. CASE n # 2 /\ others = {root}
    <3> DEFINE fold == Folded(kids, root)
               all == [kids EXCEPT ![root] = fold]
    <3>1. root \in 1 .. Len(kids)
      <4>1. others \subseteq 1 .. Len(kids)
        BY <2>3, <2>4
      <4> HIDE DEF others, root, kids
      <4> QED BY <2>13, <4>1
    <3>2. OneTree(fold, from, kids[Len(kids)][1].end, len, calm, strict)
      <4> HIDE DEF kids, root, len
      <4> QED BY <2>3, <3>1, FoldedGood
    <3>3. \/ tree = fold
          \/ tree = Wrap(expected, all, TRUE)
      <4>1. n > 2
        BY <2>1, <2>13
      <4>2. \/ Result(j, r) = Folded(kids, root)
            \/ Result(j, r) = Wrap(expected, [kids EXCEPT ![root] = Folded(kids, root)], TRUE)
        BY <2>1, <2>13, <4>1 DEF Result
      <4> QED BY <4>2
    <3> HIDE DEF fold, root, others, tree
    <3>4. /\ all \in Seq(Seq(TreeNode)) /\ Len(all) = Len(kids)
          /\ \A k \in 1 .. Len(kids) : all[k] = IF k = root THEN fold ELSE kids[k]
      <4> DEFINE S == Seq(TreeNode)
      <4>1. kids \in Seq(S) /\ fold \in S
        BY <2>4, <3>2 DEF OneTree, Good, Forest
      <4> HIDE DEF S, kids
      <4> QED BY <3>1, <4>1, ExceptSeq DEF S
    <3>5. /\ all[1][1].start = from /\ all[Len(all)][1].end = kids[Len(kids)][1].end
          /\ 1 \in 1 .. Len(kids) /\ Len(kids) \in 1 .. Len(kids)
      <4>1. 1 \in 1 .. Len(kids) /\ Len(kids) \in 1 .. Len(kids)
        <5> HIDE DEF kids, n, all, fold, from, len
        <5> DEFINE m == Len(kids)
        <5>1. m = n - 1 /\ n - 1 \in Nat \ {0}
          BY <2>1, <2>3
        <5>2. m \in Nat \ {0}
          BY <5>1
        <5> HIDE DEF m
        <5>3. 1 \in 1 .. m /\ m \in 1 .. m
          BY <5>2
        <5> QED BY <5>3 DEF m
      <4> HIDE DEF all, kids
      <4> QED BY <3>2, <3>4, <4>1 DEF OneTree, from
    <3> HIDE DEF all
    <3>6. Kin(all, from, all[Len(all)][1].end, len, calm, strict)
      <4> DEFINE to == kids[Len(kids)][1].end
      <4>1. from \in Nat /\ to \in Nat /\ from <= to /\ to <= len
        <5> HIDE DEF kids
        <5>1. Good(kids[1], len, calm, strict) /\ Rooted(kids[1], len)
          BY <2>8, <3>5 DEF Kin
        <5> QED BY <2>8, <5>1, RootIs DEF Kin
      <4> HIDE DEF kids, from, to, len, n
      <4>2. ASSUME NEW k \in 1 .. Len(kids)
            PROVE  /\ Good(all[k], len, calm, strict) /\ Rooted(all[k], len)
                   /\ calm => all[k][1].end <= to
                   /\ strict => from <= all[k][1].start
        <5>1. CASE k = root
          <6>1. all[k] = fold
            BY <3>4, <5>1
          <6>2. /\ Good(fold, len, calm, strict) /\ Rooted(fold, len)
                /\ fold[1].end = to /\ fold[1].start = from
            BY <3>2 DEF OneTree, to
          <6> QED BY <4>1, <6>1, <6>2
        <5>2. CASE k # root
          <6>1. all[k] = kids[k]
            BY <3>4, <5>2
          <6> QED BY <2>8, <6>1 DEF Kin, to
        <5> QED BY <5>1, <5>2
      <4>3. Len(all) > 0
        BY <3>4, <3>5
      <4> QED BY <3>4, <3>5, <4>1, <4>2, <4>3 DEF Kin, to
    <3>7. Good(Wrap(expected, all, TRUE), len, calm, strict)
      <4> HIDE DEF kids, len, n, expected, from
      <4> QED BY <1>1, <2>7, <3>6, WrapGood
    <3> HIDE DEF kids, len, n, expected
    <3> QED BY <3>2, <3>3, <3>7 DEF OneTree
  <2> QED BY <2>10, <2>11, <2>12, <2>13
<1> QED
  <2>1. n = 0 => r.stack = << >>
    BY <1>1
  <2>2. n = 0 \/ n = 1 \/ n >= 2
    <3> HIDE DEF n
    <3> QED BY <1>1
  <2> HIDE DEF tree, n
  <2> QED BY <1>4, <1>5, <1>6, <2>1, <2>2

\* All of its nodes were made where they are.
Made(t) == \A i \in DOMAIN t : t[i].was = <<t[i].start, t[i].end>>

LEMMA SettleGood ==
    ASSUME NEW j, NEW r, NEW t, NEW len, NEW snug, NEW strict, Good(t, len, snug, strict)
    PROVE  Good(Settle(j, r, t), len, snug, strict) /\ Made(Settle(j, r, t))
<1> DEFINE u == Settle(j, r, t)
           clean(k) == ~ (t[k].id <= r.seen /\ SameBytes(t[k], j.old, j.text))
           node(k) == [t[k] EXCEPT !.id = First(t, k), !.was = <<t[k].start, t[k].end>>,
                                   !.dirty = @ /\ clean(k)]
<1>1. t \in Seq(TreeNode) /\ DOMAIN t = 1 .. Len(t) /\ Len(t) \in Nat
  BY DEF Good, Forest
<1>2. ASSUME NEW k \in DOMAIN t PROVE First(t, k) \in Int
  <2> DEFINE same == {i \in DOMAIN t : t[i].id = t[k].id}
  <2>1. same \subseteq Nat /\ same # {}
    BY <1>1
  <2>2. First(t, k) = k \/ First(t, k) = Min(same)
    BY DEF First
  <2> HIDE DEF same
  <2>3. Min(same) \in Nat
    BY <2>1, MinOf
  <2> QED BY <1>1, <2>2, <2>3
<1>3. ASSUME NEW k \in DOMAIN t
      PROVE  /\ node(k) \in TreeNode /\ node(k).start = t[k].start /\ node(k).end = t[k].end
             /\ node(k).size = t[k].size /\ node(k).was = <<t[k].start, t[k].end>>
  <2> DEFINE x == t[k]  d == x.dirty /\ clean(k)  w == <<x.start, x.end>>  i == First(t, k)
             y == node(k)
  <2>1. x \in TreeNode /\ d \in BOOLEAN /\ i \in Int
    BY <1>1, <1>2
  <2>2. w \in Nat \X Nat
    BY <2>1 DEF TreeNode
  <2>3. y = [x EXCEPT !.id = i, !.was = w, !.dirty = d]
    OBVIOUS
  <2> HIDE DEF x, d, w, y, i
  <2>4. y \in TreeNode
    BY <2>1, <2>2, <2>3 DEF TreeNode
  <2>5. y.start = x.start /\ y.end = x.end /\ y.size = x.size /\ y.was = w
    BY <2>1, <2>3 DEF TreeNode
  <2> QED BY <2>4, <2>5 DEF x, w, y
<1>4. u = [k \in DOMAIN t |-> node(k)]
  BY DEF Settle
<1> HIDE DEF node, u
<1>5. u \in Seq(TreeNode) /\ Len(u) = Len(t) /\ DOMAIN u = DOMAIN t
      /\ \A k \in DOMAIN t : u[k] = node(k)
  <2>1. u \in [1 .. Len(t) -> TreeNode]
    BY <1>1, <1>3, <1>4
  <2> QED BY <1>1, <1>4, <2>1
<1>6. Alike(t, u)
  BY <1>1, <1>3, <1>5 DEF Alike
<1>7. Good(u, len, snug, strict)
  BY <1>6, AlikeGood
<1>8. Made(u)
  BY <1>3, <1>5 DEF Made
<1> QED BY <1>7, <1>8 DEF u

-----------------------------------------------------------------------------
\* Edits.  A node is moved or not as the node right above it is, unless that
\* one is overlapped; then its own span decides.

IsEdit(edit) ==
  /\ edit.start \in Nat /\ edit.oldEnd \in Nat /\ edit.newEnd \in Nat
  /\ edit.start <= edit.oldEnd /\ edit.start <= edit.newEnd

Sides == {"before", "after", "over"}

LEMMA PlaceIs ==
    ASSUME NEW node \in TreeNode, NEW edit, IsEdit(edit)
    PROVE  /\ Place(node, edit) = "before" => node.end <= edit.start
           /\ Place(node, edit) = "after" => node.start >= edit.oldEnd
           /\ Place(node, edit) = "over" => node.end > edit.start /\ node.start < edit.oldEnd
           /\ Place(node, edit) \in Sides
<1>1. node.start \in Nat /\ node.end \in Nat
  BY DEF TreeNode
<1>2. CASE node.end <= edit.start
  <2>1. Place(node, edit) = "before"
    BY <1>1, <1>2 DEF Place, IsEdit
  <2> QED BY <1>2, <2>1 DEF Sides
<1>3. CASE node.end > edit.start /\ node.start >= edit.oldEnd
  <2>1. Place(node, edit) = "after"
    BY <1>1, <1>3 DEF Place, IsEdit
  <2> QED BY <1>3, <2>1 DEF Sides
<1>4. CASE node.end > edit.start /\ ~ (node.start >= edit.oldEnd)
  <2>1. Place(node, edit) = "over"
    BY <1>1, <1>4 DEF Place, IsEdit
  <2> QED BY <1>1, <1>4, <2>1 DEF IsEdit, Sides
<1> QED BY <1>1, <1>2, <1>3, <1>4 DEF IsEdit

LEMMA MovedFacts ==
    ASSUME NEW v \in Nat, NEW edit, IsEdit(edit)
    PROVE  /\ Moved(v, edit) \in Nat
           /\ Moved(v, edit) = IF v + edit.newEnd - edit.oldEnd >= 0
                                 THEN v + edit.newEnd - edit.oldEnd ELSE 0
<1>1. edit.newEnd \in Nat /\ edit.oldEnd \in Nat
  BY DEF IsEdit
<1> QED BY <1>1, MovedIs

\* What an edit makes y of a node x, in each of the three places.
Moves(x, y, place, edit) ==
  /\ y \in TreeNode /\ y.size = x.size /\ y.was = x.was /\ y.id = x.id
  /\ place = "before" => y = x
  /\ place = "after" => y.start = Moved(x.start, edit) /\ y.end = Moved(x.end, edit)
  /\ place = "after" => (y.dirty <=> x.dirty)
  /\ place = "over" => y.start = x.start /\ y.dirty
  /\ place = "over" => y.end = IF x.end <= edit.oldEnd THEN edit.newEnd ELSE Moved(x.end, edit)

LEMMA TouchedIs ==
    ASSUME NEW x \in TreeNode, NEW p \in Sides, NEW edit, IsEdit(edit)
    PROVE  Moves(x, Touched(x, p, edit), p, edit)
<1> DEFINE y == Touched(x, p, edit)
           s == Moved(x.start, edit)  e == Moved(x.end, edit)
           f == IF x.end <= edit.oldEnd THEN edit.newEnd ELSE e
<1>1. x.start \in Nat /\ x.end \in Nat
  BY DEF TreeNode
<1>2. s \in Nat /\ e \in Nat /\ f \in Nat
  BY <1>1, MovedFacts DEF IsEdit
<1>3. /\ p = "before" => y = x
      /\ p = "after" => y = [x EXCEPT !.start = s, !.end = e]
      /\ p = "over" => y = [x EXCEPT !.dirty = TRUE, !.end = f]
  BY DEF Touched
<1>4. p \in {"before", "after", "over"}
  BY DEF Sides
<1>5. /\ s = Moved(x.start, edit) /\ e = Moved(x.end, edit)
      /\ f = IF x.end <= edit.oldEnd THEN edit.newEnd ELSE Moved(x.end, edit)
  OBVIOUS
<1> HIDE DEF y, s, e, f
<1>6. CASE p = "before"
  BY <1>3, <1>6 DEF Moves, y
<1>7. CASE p = "after"
  <2> DEFINE z == [x EXCEPT !.start = s, !.end = e]
  <2>1. z \in TreeNode
    BY <1>2 DEF TreeNode
  <2>2. z.start = s /\ z.end = e /\ z.size = x.size /\ z.was = x.was /\ z.id = x.id
    BY DEF TreeNode
  <2>3. z.dirty <=> x.dirty
    BY DEF TreeNode
  <2>4. y = z
    BY <1>3, <1>7
  <2> HIDE DEF z
  <2>5. Moves(x, y, p, edit)
    BY <1>5, <1>7, <2>1, <2>2, <2>3, <2>4 DEF Moves
  <2> QED BY <2>5 DEF y
<1>8. CASE p = "over"
  <2> DEFINE z == [x EXCEPT !.dirty = TRUE, !.end = f]
  <2>1. z \in TreeNode
    BY <1>2 DEF TreeNode
  <2>2. z.start = x.start /\ z.end = f /\ z.size = x.size /\ z.was = x.was /\ z.id = x.id
    BY DEF TreeNode
  <2>3. z.dirty
    BY DEF TreeNode
  <2>4. y = z
    BY <1>3, <1>8
  <2> HIDE DEF z
  <2>5. Moves(x, y, p, edit)
    BY <1>5, <1>8, <2>1, <2>2, <2>3, <2>4 DEF Moves
  <2> QED BY <2>5 DEF y
<1> QED BY <1>4, <1>6, <1>7, <1>8

\* The place a node is taken to be in, with those of the nodes in front.
Side(t, k, p, edit) ==
  LET up == Above(t, k)
  IN IF up = {} \/ p[Max(up)] = "over" THEN Place(t[k], edit) ELSE p[Max(up)]

LEMMA AboveIs ==
    ASSUME NEW t \in Seq(TreeNode), NEW k \in 1 .. Len(t)
    PROVE  /\ Above(t, k) \subseteq 1 .. k - 1 /\ 1 .. k - 1 \subseteq DOMAIN t
           /\ \A a \in Above(t, k) : k \in Under(t, a)
           /\ Above(t, k) # {} => /\ Max(Above(t, k)) \in Above(t, k)
                                  /\ \A a \in Above(t, k) : a <= Max(Above(t, k))
<1>1. Len(t) \in Nat /\ DOMAIN t = 1 .. Len(t) /\ k \in Nat
  OBVIOUS
<1>2. Above(t, k) \subseteq 1 .. k - 1 /\ 1 .. k - 1 \subseteq DOMAIN t
  BY <1>1 DEF Above
<1>3. ASSUME NEW a \in Above(t, k) PROVE k \in Under(t, a)
  <2>1. a \in 1 .. k - 1 /\ a + t[a].size > k
    BY DEF Above
  <2>2. a \in 1 .. Len(t) /\ t[a].size \in Nat
    BY <1>1, <2>1, NodeFacts
  <2> QED BY <1>1, <2>1, <2>2 DEF Under
<1>4. ASSUME Above(t, k) # {}
      PROVE  /\ Max(Above(t, k)) \in Above(t, k)
             /\ \A a \in Above(t, k) : a <= Max(Above(t, k))
  <2> DEFINE up == Above(t, k)
  <2>1. up \subseteq 0 .. k - 1 /\ k - 1 \in Nat
    BY <1>2
  <2> HIDE DEF up
  <2>2. Max(up) \in up /\ \A a \in up : a <= Max(up)
    BY <1>4, <2>1, MaxOf DEF up
  <2> QED BY <2>2 DEF up
<1> QED BY <1>2, <1>3, <1>4

\* Trees of the same form, and what has become of one so far.
Formed(t) ==
  {u \in Seq(TreeNode) : /\ Len(u) = Len(t)
                         /\ \A i \in 1 .. Len(t) : u[i].size = t[i].size /\ u[i].id = t[i].id}

Walk(t) == [nodes : Formed(t), place : [1 .. Len(t) -> Sides]]

\* The visit of node k makes w of v.
Visiting(t, edit, v, k, w) ==
  /\ w \in Walk(t)
  /\ w.place = [v.place EXCEPT ![k] = Side(v.nodes, k, v.place, edit)]
  /\ \A i \in 1 .. Len(t) :
       w.nodes[i] = IF t[i].id = t[k].id
                      THEN Touched(v.nodes[i], Side(v.nodes, k, v.place, edit), edit)
                      ELSE v.nodes[i]

LEMMA VisitIs ==
    ASSUME NEW t \in Seq(TreeNode), NEW edit, IsEdit(edit), NEW v \in Walk(t), NEW k \in 1 .. Len(t)
    PROVE  Visiting(t, edit, v, k, Visit(v, k, edit)) /\ Visit(v, k, edit) \in Walk(t)
<1> DEFINE up == Above(v.nodes, k)
           place == Side(v.nodes, k, v.place, edit)
           u == v.nodes
           w == [i \in DOMAIN u |-> IF u[i].id = u[k].id THEN Touched(u[i], place, edit) ELSE u[i]]
           p == [v.place EXCEPT ![k] = place]
<1>1. /\ u \in Seq(TreeNode) /\ Len(u) = Len(t) /\ DOMAIN u = 1 .. Len(t) /\ Len(t) \in Nat
      /\ \A i \in 1 .. Len(t) : u[i].size = t[i].size /\ u[i].id = t[i].id /\ u[i] \in TreeNode
  <2>1. u \in Formed(t)
    BY DEF Walk
  <2> HIDE DEF u
  <2>2. /\ u \in Seq(TreeNode) /\ Len(u) = Len(t)
        /\ \A i \in 1 .. Len(t) : u[i].size = t[i].size /\ u[i].id = t[i].id
    BY <2>1 DEF Formed
  <2> QED BY <2>2
<1>2. v.place \in [1 .. Len(t) -> Sides]
  BY DEF Walk
<1>3. Visit(v, k, edit) = [nodes |-> w, place |-> p]
  BY DEF Visit, Side
<1>4. place \in Sides
  <2> DEFINE q == v.place
  <2>1. Place(u[k], edit) \in Sides
    BY <1>1, PlaceIs
  <2>2. Above(u, k) # {} => q[Max(Above(u, k))] \in Sides
    <3> ASSUME Above(u, k) # {} PROVE q[Max(Above(u, k))] \in Sides
      <4>1. k \in 1 .. Len(u)
        BY <1>1
      <4> HIDE DEF u
      <4>2. Max(Above(u, k)) \in DOMAIN u
        BY <1>1, <4>1, AboveIs
      <4> QED BY <1>1, <1>2, <4>2
    <3> QED OBVIOUS
  <2>3. place = Side(u, k, q, edit)
    OBVIOUS
  <2> HIDE DEF u, q, place
  <2> QED BY <2>1, <2>2, <2>3 DEF Side
<1> HIDE DEF place, u
<1>5. ASSUME NEW i \in 1 .. Len(t)
      PROVE  /\ w[i] = IF t[i].id = t[k].id THEN Touched(u[i], place, edit) ELSE u[i]
             /\ w[i] \in TreeNode /\ w[i].size = t[i].size /\ w[i].id = t[i].id
  <2>1. w[i] = IF t[i].id = t[k].id THEN Touched(u[i], place, edit) ELSE u[i]
    BY <1>1
  <2>2. Moves(u[i], Touched(u[i], place, edit), place, edit)
    BY <1>1, <1>4, TouchedIs
  <2> HIDE DEF w
  <2> QED BY <1>1, <2>1, <2>2 DEF Moves
<1>6. w \in Formed(t)
  <2>1. w \in [1 .. Len(t) -> TreeNode]
    BY <1>1, <1>5
  <2>2. w \in Seq(TreeNode) /\ Len(w) = Len(t)
    <3> HIDE DEF w
    <3> QED BY <1>1, <2>1
  <2> HIDE DEF w
  <2> QED BY <1>5, <2>2 DEF Formed
<1>7. p \in [1 .. Len(t) -> Sides]
  BY <1>2, <1>4
<1> HIDE DEF w, p
<1>8. Visit(v, k, edit) \in Walk(t)
  BY <1>3, <1>6, <1>7 DEF Walk
<1>9. Visit(v, k, edit).nodes = w /\ Visit(v, k, edit).place = p
  BY <1>3
<1> QED BY <1>4, <1>5, <1>8, <1>9 DEF Visiting, place, u, p

\* The walk of an edit over a tree, node by node.
Walks(t, edit, h) ==
  /\ h \in [0 .. Len(t) -> Walk(t)]
  /\ h[0] = [nodes |-> t, place |-> [i \in DOMAIN t |-> "over"]]
  /\ \A k \in 1 .. Len(t) : h[k] = Visit(h[k - 1], k, edit)
  /\ Edited(t, edit) = h[Len(t)].nodes

LEMMA WalkExists ==
    ASSUME NEW t \in Seq(TreeNode), NEW edit, IsEdit(edit)
    PROVE  \E h : Walks(t, edit, h)
<1> DEFINE n == Len(t)
           S == Walk(t)
           first == [nodes |-> t, place |-> [i \in DOMAIN t |-> "over"]]
           step == [k \in 1 .. n |-> [v \in S |-> Visit(v, k, edit)]]
           visited[k \in 0 .. Len(t)] == IF k = 0 THEN first ELSE Visit(visited[k - 1], k, edit)
<1>1. n \in Nat /\ DOMAIN t = 1 .. n
  OBVIOUS
<1>2. first \in S
  <2>1. t \in Formed(t)
    BY DEF Formed
  <2>2. [i \in DOMAIN t |-> "over"] \in [1 .. n -> Sides]
    BY <1>1 DEF Sides
  <2> QED BY <2>1, <2>2 DEF Walk
<1>3. step \in [1 .. n -> [S -> S]]
  <2>1. \A k \in 1 .. n : \A v \in S : Visit(v, k, edit) \in S
    BY VisitIs
  <2> HIDE DEF S, n
  <2> QED BY <2>1
<1> HIDE DEF first
<1>4. Steps(S, first, step, n)
  <2> HIDE DEF step, n, S
  <2> QED BY <1>1, <1>2, <1>3, StepsExist
<1>5. PICK h \in [0 .. n -> S] : h[0] = first /\ \A k \in 1 .. n : h[k] = step[k][h[k - 1]]
  BY <1>4, Zenon DEF Steps
<1>6. \A k \in 1 .. n : h[k] = Visit(h[k - 1], k, edit)
  <2> TAKE k \in 1 .. n
  <2>1. k - 1 \in 0 .. n
    BY <1>1
  <2>2. h[k - 1] \in S
    <3> HIDE DEF S, n
    <3> QED BY <2>1
  <2>3. step[k] = [v \in S |-> Visit(v, k, edit)]
    OBVIOUS
  <2>4. h[k] = step[k][h[k - 1]]
    BY <1>5
  <2> QED BY <2>2, <2>3, <2>4
<1> HIDE DEF S, step
<1>7. h = [k \in 0 .. Len(t) |-> IF k = 0 THEN first ELSE Visit(h[k - 1], k, edit)]
  <2>1. \A k \in 0 .. n : k = 0 \/ k \in 1 .. n
    BY <1>1
  <2> QED BY <1>5, <1>6, <2>1
<1>8. visited = [k \in 0 .. Len(t) |-> IF k = 0 THEN first ELSE Visit(visited[k - 1], k, edit)]
  BY <1>7, Zenon
<1>9. Edited(t, edit) = visited[n].nodes
  BY DEF Edited, first
<1> HIDE DEF visited
<1>10. visited[0] = first /\ \A k \in 1 .. n : visited[k] = Visit(visited[k - 1], k, edit)
  <2>1. 0 \in 0 .. n /\ \A k \in 1 .. n : k \in 0 .. n /\ k # 0
    BY <1>1
  <2>2. \A k \in 0 .. n : visited[k] = IF k = 0 THEN first ELSE Visit(visited[k - 1], k, edit)
    BY <1>8, Zenon
  <2> HIDE DEF n
  <2> QED BY <2>1, <2>2
<1>11. \A k \in 0 .. n : visited[k] = h[k]
  <2> DEFINE T == {k \in 0 .. n : visited[k] = h[k]}
  <2>1. 0 \in T
    BY <1>1, <1>5, <1>10
  <2>2. \A k \in 1 .. n : k - 1 \in T => k \in T
    BY <1>1, <1>6, <1>10
  <2>3. 0 .. n \subseteq T
    <3> HIDE DEF T, n
    <3> QED BY <1>1, <2>1, <2>2, UpTo
  <2> QED BY <2>3
<1>12. Edited(t, edit) = h[n].nodes
  <2>1. n \in 0 .. n
    BY <1>1
  <2> HIDE DEF n
  <2> QED BY <1>9, <1>11, <2>1
<1> QED BY <1>5, <1>6, <1>12 DEF Walks, S, first

\* An edit keeps the form of a tree.
LEMMA EditedForm ==
    ASSUME NEW t, Forest(t), NEW edit, IsEdit(edit)
    PROVE  Edited(t, edit) \in Formed(t) /\ Forest(Edited(t, edit))
<1> DEFINE u == Edited(t, edit)
<1>1. t \in Seq(TreeNode) /\ Len(t) \in Nat /\ DOMAIN t = 1 .. Len(t)
  BY DEF Forest
<1>2. PICK h : Walks(t, edit, h)
  BY <1>1, WalkExists
<1>3. u \in Formed(t)
  <2>1. h[Len(t)] \in Walk(t) /\ u = h[Len(t)].nodes
    BY <1>1, <1>2 DEF Walks
  <2> HIDE DEF u
  <2> QED BY <2>1 DEF Walk
<1> HIDE DEF u
<1>4. u \in Seq(TreeNode) /\ Len(u) = Len(t) /\ \A i \in 1 .. Len(t) : u[i].size = t[i].size
  BY <1>3 DEF Formed
<1>5. DOMAIN u = DOMAIN t
  BY <1>1, <1>4
<1>6. \A i \in DOMAIN t : Under(u, i) = Under(t, i) /\ \A k \in Under(t, i) : k \in DOMAIN t
  BY <1>1, <1>4, NodeFacts DEF Forest, Under
<1>7. \A i \in DOMAIN u : i + u[i].size <= Len(u) + 1
  BY <1>1, <1>4, <1>5 DEF Forest
<1>8. \A i \in DOMAIN u : \A k \in Under(u, i) : k + u[k].size <= i + u[i].size
  BY <1>1, <1>4, <1>5, <1>6 DEF Forest
<1> QED BY <1>3, <1>4, <1>7, <1>8 DEF Forest, u

\* No node is in the tree twice.
Distinct(t) == \A i \in DOMAIN t : t[i].id = i

\* Then each is visited once: what an edit does to them by their places.
Visits(t, edit, p) ==
  /\ p \in [1 .. Len(t) -> Sides]
  /\ \A i \in 1 .. Len(t) : p[i] = Side(t, i, p, edit)
  /\ \A i \in 1 .. Len(t) : Edited(t, edit)[i] = Touched(t[i], p[i], edit)

\* After k steps of the walk, the first k nodes are as they will be.
Walked(t, edit, v, k) ==
  /\ \A i \in 1 .. k : /\ v.nodes[i] = Touched(t[i], v.place[i], edit)
                       /\ v.place[i] = Side(t, i, v.place, edit)
  /\ \A i \in k + 1 .. Len(t) : v.nodes[i] = t[i]

LEMMA WalkedOn ==
    ASSUME NEW t, Forest(t), Distinct(t), NEW edit, IsEdit(edit), NEW k \in 1 .. Len(t),
           NEW v \in Walk(t), Walked(t, edit, v, k - 1)
    PROVE  Walked(t, edit, Visit(v, k, edit), k)
<1> DEFINE u == v.nodes  p == v.place  n == Len(t)
           w == Visit(v, k, edit).nodes  q == Visit(v, k, edit).place
           side == Side(u, k, p, edit)
<1>1. t \in Seq(TreeNode) /\ n \in Nat /\ DOMAIN t = 1 .. n /\ k \in 1 .. n
  BY DEF Forest
<1>2. /\ u \in Seq(TreeNode) /\ Len(u) = n /\ p \in [1 .. n -> Sides]
      /\ \A i \in 1 .. n : u[i].size = t[i].size
  <2>1. u \in Formed(t) /\ p \in [1 .. n -> Sides]
    BY DEF Walk
  <2> HIDE DEF u, p
  <2> QED BY <2>1 DEF Formed
<1>3. /\ q = [p EXCEPT ![k] = side]
      /\ \A i \in 1 .. n : w[i] = IF t[i].id = t[k].id THEN Touched(u[i], side, edit) ELSE u[i]
  <2>1. Visiting(t, edit, v, k, Visit(v, k, edit))
    BY <1>1, VisitIs
  <2> QED BY <2>1 DEF Visiting
<1>4. /\ \A i \in 1 .. k - 1 : /\ u[i] = Touched(t[i], p[i], edit)
                               /\ p[i] = Side(t, i, p, edit)
      /\ \A i \in k .. n : u[i] = t[i]
  <2>1. (k - 1) + 1 = k
    BY <1>1
  <2> QED BY <2>1 DEF Walked
<1> HIDE DEF u, p, w, q, side
<1>5. /\ \A i \in 1 .. n : q[i] = IF i = k THEN side ELSE p[i]
      /\ \A i \in 1 .. n : w[i] = IF i = k THEN Touched(u[i], side, edit) ELSE u[i]
  <2>1. \A i \in 1 .. n : t[i].id = i
    BY <1>1 DEF Distinct
  <2> QED BY <1>1, <1>2, <1>3, <2>1
<1>6. ASSUME NEW i \in 1 .. k PROVE Side(t, i, q, edit) = Side(t, i, p, edit)
  <2>1. i \in 1 .. n
    BY <1>1
  <2>2. Above(t, i) # {} => Max(Above(t, i)) \in 1 .. n /\ Max(Above(t, i)) # k
    <3>1. Above(t, i) # {} => Max(Above(t, i)) \in 1 .. i - 1
      BY <1>1, <2>1, AboveIs
    <3> QED BY <1>1, <3>1
  <2>3. Above(t, i) # {} => q[Max(Above(t, i))] = p[Max(Above(t, i))]
    BY <1>5, <2>2
  <2> QED BY <2>3 DEF Side
<1>7. side = Side(t, k, p, edit)
  <2>1. Above(u, k) = Above(t, k)
    BY <1>1, <1>2 DEF Above
  <2>2. u[k] = t[k]
    BY <1>1, <1>4
  <2> QED BY <2>1, <2>2 DEF side, Side, u, p
<1>8. ASSUME NEW i \in 1 .. k
      PROVE  w[i] = Touched(t[i], q[i], edit) /\ q[i] = Side(t, i, q, edit)
  <2>1. i \in 1 .. n
    BY <1>1
  <2>2. CASE i = k
    <3>1. u[i] = t[i]
      BY <1>1, <1>4, <2>2
    <3> QED BY <1>5, <1>6, <1>7, <2>1, <2>2, <3>1
  <2>3. CASE i # k
    <3>1. i \in 1 .. k - 1
      BY <1>1, <2>3
    <3> QED BY <1>4, <1>5, <1>6, <2>1, <2>3, <3>1
  <2> QED BY <2>2, <2>3
<1>9. ASSUME NEW i \in k + 1 .. n PROVE w[i] = t[i]
  <2>1. i \in 1 .. n /\ i # k /\ i \in k .. n
    BY <1>1
  <2> QED BY <1>4, <1>5, <2>1
<1> QED BY <1>8, <1>9 DEF Walked, w, q

LEMMA VisitsExist ==
    ASSUME NEW t, Forest(t), Distinct(t), NEW edit, IsEdit(edit)
    PROVE  \E p : Visits(t, edit, p)
<1> DEFINE n == Len(t)
<1>1. t \in Seq(TreeNode) /\ n \in Nat
  BY DEF Forest
<1>2. PICK h : Walks(t, edit, h)
  BY <1>1, WalkExists
<1>3. /\ \A k \in 0 .. n : h[k] \in Walk(t)
      /\ h[0].nodes = t /\ Edited(t, edit) = h[n].nodes
      /\ \A k \in 1 .. n : h[k] = Visit(h[k - 1], k, edit)
  BY <1>2 DEF Walks
<1> HIDE DEF n
<1>4. Walked(t, edit, h[0], 0)
  BY <1>1, <1>3 DEF Walked
<1>5. ASSUME NEW k \in 1 .. n, Walked(t, edit, h[k - 1], k - 1) PROVE Walked(t, edit, h[k], k)
  <2>1. k - 1 \in 0 .. n
    BY <1>1
  <2> QED BY <1>3, <1>5, <2>1, WalkedOn DEF n
<1>6. Walked(t, edit, h[n], n)
  <2> DEFINE T == {k \in 0 .. n : Walked(t, edit, h[k], k)}
  <2>1. 0 \in T
    BY <1>1, <1>4
  <2>2. \A k \in 1 .. n : k - 1 \in T => k \in T
    BY <1>1, <1>5
  <2>3. 0 .. n \subseteq T
    <3> HIDE DEF T
    <3> QED BY <1>1, <2>1, <2>2, UpTo
  <2> QED BY <1>1, <2>3
<1>7. h[n].place \in [1 .. n -> Sides]
  BY <1>1, <1>3 DEF Walk, n
<1>8. Visits(t, edit, h[n].place)
  BY <1>3, <1>6, <1>7 DEF Visits, Walked, n
<1> QED BY <1>8

\* What the places say of the spans.  Below a node that is not overlapped
\* they are all its own.
LEMMA PlacesAre ==
    ASSUME NEW t, Forest(t), NEW edit, IsEdit(edit), NEW p, Visits(t, edit, p)
    PROVE  /\ \A i \in DOMAIN t : p[i] \in Sides
           /\ \A i \in DOMAIN t : p[i] = "over" => t[i].end > edit.start /\ t[i].start < edit.oldEnd
           /\ \A i \in DOMAIN t : p[i] # "over" => \A k \in Under(t, i) : p[k] = p[i]
           /\ \A len : Snug(t, len) => \A i \in DOMAIN t : p[i] = "before" => t[i].end <= edit.start
           /\ Upright(t) => \A i \in DOMAIN t : p[i] = "after" => t[i].start >= edit.oldEnd
<1> DEFINE up(i) == Above(t, i)  m(i) == Max(Above(t, i))
<1>1. t \in Seq(TreeNode) /\ DOMAIN t = 1 .. Len(t) /\ Len(t) \in Nat /\ DOMAIN t \subseteq Nat
  BY DEF Forest
<1>2. \A i \in DOMAIN t : p[i] \in Sides /\ p[i] = Side(t, i, p, edit)
  BY <1>1 DEF Visits
<1>3. \A i \in DOMAIN t : /\ t[i] \in TreeNode /\ t[i].start \in Nat /\ t[i].end \in Nat
                          /\ t[i].size \in Nat \ {0}
  BY <1>1, NodeFacts
<1>4. \A i \in DOMAIN t : /\ up(i) \subseteq 1 .. i - 1 /\ 1 .. i - 1 \subseteq DOMAIN t
                          /\ \A a \in up(i) : i \in Under(t, a)
                          /\ up(i) # {} => m(i) \in up(i) /\ \A a \in up(i) : a <= m(i)
  BY <1>1, AboveIs
<1>5. \A i \in DOMAIN t :
        \/ p[i] = Place(t[i], edit)
        \/ up(i) # {} /\ p[m(i)] # "over" /\ p[i] = p[m(i)]
  BY <1>2 DEF Side
<1>6. \A i \in DOMAIN t : m(i) \in up(i) => m(i) \in DOMAIN t /\ m(i) \in Nat /\ m(i) < i /\ i \in Under(t, m(i))
  <2> TAKE i \in DOMAIN t
  <2> HAVE m(i) \in up(i)
  <2>1. m(i) \in 1 .. i - 1 /\ i \in Nat
    BY <1>1, <1>4
  <2>2. m(i) \in Nat /\ m(i) < i
    <3> HIDE DEF m
    <3> QED BY <2>1
  <2> QED BY <1>4, <2>1, <2>2
<1>7. \A i \in DOMAIN t : p[i] = "over" => t[i].end > edit.start /\ t[i].start < edit.oldEnd
  BY <1>3, <1>5, PlaceIs
<1>8. ASSUME NEW i \in DOMAIN t, p[i] # "over", NEW k \in Under(t, i) PROVE p[k] = p[i]
  <2> DEFINE bad == {x \in Under(t, i) : p[x] # p[i]}
  <2> SUFFICES ASSUME bad # {} PROVE FALSE
    OBVIOUS
  <2>1. /\ i \in Nat /\ t[i].size \in Nat /\ i + t[i].size <= Len(t) + 1
        /\ \A x \in Under(t, i) : x \in DOMAIN t /\ x \in Nat /\ i < x /\ x < i + t[i].size
    BY <1>1, <1>3 DEF Forest, Under
  <2>2. PICK x \in bad : \A y \in bad : x <= y
    <3>1. bad \subseteq Nat
      BY <2>1
    <3> HIDE DEF bad
    <3> QED BY <3>1, LeastElement
  <2>3. x \in Under(t, i) /\ p[x] # p[i] /\ x \in DOMAIN t /\ x \in Nat /\ i < x /\ x < i + t[i].size
    BY <2>1, <2>2
  <2>4. i \in up(x)
    <3>1. i \in 1 .. x - 1 /\ i + t[i].size > x
      BY <1>1, <2>1, <2>3
    <3> QED BY <3>1 DEF Above
  <2>5. m(x) \in up(x) /\ i <= m(x) /\ m(x) \in DOMAIN t /\ m(x) \in Nat /\ m(x) < x
    BY <1>4, <1>6, <2>3, <2>4
  <2>6. p[m(x)] = p[i]
    <3>1. CASE m(x) = i
      BY <3>1
    <3>2. CASE m(x) # i
      <4>1. m(x) \in Under(t, i)
        <5> HIDE DEF m
        <5> QED BY <2>1, <2>3, <2>5, <3>2 DEF Under
      <4>2. m(x) \notin bad
        <5> HIDE DEF m, bad
        <5> QED BY <2>2, <2>3, <2>5
      <4> QED BY <4>1, <4>2
    <3> QED BY <3>1, <3>2
  <2>7. p[x] = p[m(x)]
    <3>1. p[x] = Side(t, x, p, edit)
      BY <1>2, <2>3
    <3>2. p[m(x)] # "over" /\ up(x) # {}
      BY <1>8, <2>4, <2>6
    <3> QED BY <3>1, <3>2 DEF Side
  <2> QED BY <2>3, <2>6, <2>7
<1>9. ASSUME NEW len, Snug(t, len), NEW i \in DOMAIN t, p[i] = "before" PROVE t[i].end <= edit.start
  <2> DEFINE bad == {x \in DOMAIN t : p[x] = "before" /\ ~ (t[x].end <= edit.start)}
  <2> SUFFICES ASSUME bad # {} PROVE FALSE
    BY <1>9
  <2>1. PICK x \in bad : \A y \in bad : x <= y
    <3>1. bad \subseteq Nat
      BY <1>1
    <3> HIDE DEF bad
    <3> QED BY <3>1, LeastElement
  <2>2. x \in DOMAIN t /\ p[x] = "before" /\ ~ (t[x].end <= edit.start)
    OBVIOUS
  <2>3. Place(t[x], edit) # "before"
    BY <1>3, <2>2, PlaceIs
  <2>4. up(x) # {} /\ p[m(x)] = "before"
    BY <1>5, <2>2, <2>3
  <2>5. m(x) \in DOMAIN t /\ m(x) \in Nat /\ m(x) < x /\ x \in Under(t, m(x)) /\ x \in Nat
    BY <1>1, <1>4, <1>6, <2>2, <2>4
  <2>6. m(x) \notin bad
    <3> HIDE DEF m, bad
    <3> QED BY <2>1, <2>5
  <2>7. t[m(x)].end <= edit.start
    BY <2>4, <2>5, <2>6
  <2>8. t[x].end <= t[m(x)].end
    BY <1>9, <2>5 DEF Snug
  <2>9. t[x].end \in Nat /\ t[m(x)].end \in Nat /\ edit.start \in Nat
    BY <1>3, <2>2, <2>5 DEF IsEdit
  <2> QED BY <2>2, <2>7, <2>8, <2>9
<1>10. ASSUME Upright(t), NEW i \in DOMAIN t, p[i] = "after" PROVE t[i].start >= edit.oldEnd
  <2> DEFINE bad == {x \in DOMAIN t : p[x] = "after" /\ ~ (t[x].start >= edit.oldEnd)}
  <2> SUFFICES ASSUME bad # {} PROVE FALSE
    BY <1>10
  <2>1. PICK x \in bad : \A y \in bad : x <= y
    <3>1. bad \subseteq Nat
      BY <1>1
    <3> HIDE DEF bad
    <3> QED BY <3>1, LeastElement
  <2>2. x \in DOMAIN t /\ p[x] = "after" /\ ~ (t[x].start >= edit.oldEnd)
    OBVIOUS
  <2>3. Place(t[x], edit) # "after"
    BY <1>3, <2>2, PlaceIs
  <2>4. up(x) # {} /\ p[m(x)] = "after"
    BY <1>5, <2>2, <2>3
  <2>5. m(x) \in DOMAIN t /\ m(x) \in Nat /\ m(x) < x /\ x \in Under(t, m(x)) /\ x \in Nat
    BY <1>1, <1>4, <1>6, <2>2, <2>4
  <2>6. m(x) \notin bad
    <3> HIDE DEF m, bad
    <3> QED BY <2>1, <2>5
  <2>7. t[m(x)].start >= edit.oldEnd
    BY <2>4, <2>5, <2>6
  <2>8. t[m(x)].start <= t[x].start
    BY <1>10, <2>5 DEF Upright
  <2>9. t[x].start \in Nat /\ t[m(x)].start \in Nat /\ edit.oldEnd \in Nat
    BY <1>3, <2>2, <2>5 DEF IsEdit
  <2> QED BY <2>2, <2>7, <2>8, <2>9
<1> QED BY <1>2, <1>7, <1>8, <1>9, <1>10

LEMMA VisitsMove ==
    ASSUME NEW t, Forest(t), NEW edit, IsEdit(edit), NEW p, Visits(t, edit, p)
    PROVE  /\ Edited(t, edit) \in Seq(TreeNode)
           /\ Len(Edited(t, edit)) = Len(t) /\ DOMAIN Edited(t, edit) = DOMAIN t
           /\ \A i \in DOMAIN t : Moves(t[i], Edited(t, edit)[i], p[i], edit)
<1>1. t \in Seq(TreeNode) /\ DOMAIN t = 1 .. Len(t)
  BY DEF Forest
<1>2. Edited(t, edit) \in Formed(t)
  BY EditedForm
<1>3. Edited(t, edit) \in Seq(TreeNode) /\ Len(Edited(t, edit)) = Len(t)
  BY <1>2 DEF Formed
<1>4. ASSUME NEW i \in DOMAIN t PROVE Moves(t[i], Edited(t, edit)[i], p[i], edit)
  <2>1. p[i] \in Sides /\ t[i] \in TreeNode /\ Edited(t, edit)[i] = Touched(t[i], p[i], edit)
    BY <1>1 DEF Visits
  <2> QED BY <2>1, TouchedIs
<1>5. DOMAIN Edited(t, edit) = DOMAIN t
  BY <1>1, <1>3
<1> QED BY <1>3, <1>4, <1>5

\* If no node is in the tree twice, edits keep the nesting; and the
\* beginnings, if they remove none.
LEMMA EditedGood ==
    ASSUME NEW t, NEW len \in Nat, Forest(t), Snug(t, len), Distinct(t),
           NEW edit, IsEdit(edit), edit.oldEnd <= len
    PROVE  LET u == Edited(t, edit)
           IN  /\ Snug(u, len + edit.newEnd - edit.oldEnd) /\ Distinct(u)
               /\ /\ Upright(t)
                  /\ \A i \in DOMAIN t : ~ (edit.start < t[i].start /\ t[i].start < edit.oldEnd)
                  => Upright(u)
<1>0. PICK place : Visits(t, edit, place)
  BY VisitsExist
<1> DEFINE u == Edited(t, edit)
           new == len + edit.newEnd - edit.oldEnd
           start == edit.start  oldEnd == edit.oldEnd  newEnd == edit.newEnd
<1>1. t \in Seq(TreeNode) /\ DOMAIN t = 1 .. Len(t) /\ Len(t) \in Nat
  BY DEF Forest
<1>2. \A i \in DOMAIN t : place[i] \in {"before", "after", "over"}
  BY <1>0, PlacesAre DEF Sides
<1>3. /\ u \in Seq(TreeNode) /\ Len(u) = Len(t) /\ DOMAIN u = DOMAIN t
      /\ \A i \in DOMAIN t :
           /\ u[i].size = t[i].size /\ u[i].id = t[i].id
           /\ place[i] = "before" => u[i] = t[i]
           /\ place[i] = "after" => /\ u[i].start = Moved(t[i].start, edit)
                                    /\ u[i].end = Moved(t[i].end, edit)
           /\ place[i] = "over" => /\ u[i].start = t[i].start
                                   /\ u[i].end = IF t[i].end <= edit.oldEnd THEN edit.newEnd
                                                 ELSE Moved(t[i].end, edit)
  <2>1. u \in Seq(TreeNode) /\ Len(u) = Len(t) /\ DOMAIN u = DOMAIN t
    BY <1>0, VisitsMove
  <2>2. \A i \in DOMAIN t : Moves(t[i], u[i], place[i], edit)
    BY <1>0, VisitsMove
  <2> HIDE DEF u
  <2> QED BY <2>1, <2>2 DEF Moves
<1>4. /\ start \in Nat /\ oldEnd \in Nat /\ newEnd \in Nat /\ start <= oldEnd /\ start <= newEnd
      /\ oldEnd <= len /\ new \in Nat
  BY DEF IsEdit
<1> HIDE DEF u, new, start, oldEnd, newEnd
<1>5. \A v \in Nat : /\ Moved(v, edit) \in Nat
                     /\ Moved(v, edit) = IF v + newEnd - oldEnd >= 0 THEN v + newEnd - oldEnd ELSE 0
  BY MovedFacts DEF newEnd, oldEnd
<1>6. \A i \in DOMAIN t : t[i].start \in Nat /\ t[i].end \in Nat /\ t[i].size \in Nat \ {0}
  BY <1>1, NodeFacts
<1>7. ASSUME NEW i \in DOMAIN t
      PROVE  /\ place[i] = "before" => u[i].end = t[i].end /\ t[i].end <= start
             /\ place[i] = "after" => u[i].end = Moved(t[i].end, edit)
             /\ place[i] = "over" => u[i].end = IF t[i].end <= oldEnd THEN newEnd ELSE Moved(t[i].end, edit)
             /\ place[i] = "over" => t[i].end > start /\ t[i].start < oldEnd
             /\ u[i].end \in Nat /\ u[i].end <= new
  <2>1. /\ place[i] = "before" => u[i].end = t[i].end /\ t[i].end <= start
        /\ place[i] = "after" => u[i].end = Moved(t[i].end, edit)
        /\ place[i] = "over" => u[i].end = IF t[i].end <= oldEnd THEN newEnd ELSE Moved(t[i].end, edit)
        /\ place[i] = "over" => t[i].end > start /\ t[i].start < oldEnd
    BY <1>0, <1>3, PlacesAre DEF start, oldEnd, newEnd
  <2>2. t[i].end <= len /\ t[i].end \in Nat
    BY <1>6 DEF Snug
  <2>3. Moved(t[i].end, edit) \in Nat /\ Moved(t[i].end, edit) <= new
    BY <1>4, <1>5, <2>2 DEF new, newEnd, oldEnd
  <2>4. start <= new /\ newEnd <= new
    BY <1>4 DEF new, newEnd, oldEnd
  <2>5. u[i].end \in Nat /\ u[i].end <= new
    <3>1. CASE place[i] = "before"
      BY <1>4, <2>1, <2>2, <2>4, <3>1
    <3>2. CASE place[i] = "after"
      BY <2>1, <2>3, <3>2
    <3>3. CASE place[i] = "over"
      BY <1>4, <2>1, <2>3, <2>4, <3>3
    <3> QED BY <1>2, <3>1, <3>2, <3>3
  <2> QED BY <2>1, <2>5
<1>8. \A i \in DOMAIN t : Under(u, i) = Under(t, i) /\ \A k \in Under(t, i) : k \in DOMAIN t
  BY <1>1, <1>3, NodeFacts DEF Forest, Under
<1>9. ASSUME NEW i \in DOMAIN t, NEW k \in Under(t, i) PROVE u[k].end <= u[i].end
  <2>1. k \in DOMAIN t /\ t[k].end <= t[i].end
    BY <1>8 DEF Snug
  <2>2. t[k].end \in Nat /\ t[i].end \in Nat
    BY <1>6, <2>1
  <2>3. place[i] # "over" => place[k] = place[i]
    BY <1>0, PlacesAre
  <2> DEFINE a == t[k].end  b == t[i].end  x == u[k].end  y == u[i].end
  <2>4. a \in Nat /\ b \in Nat /\ a <= b
    BY <2>1, <2>2
  <2>5. /\ Moved(a, edit) = IF a + newEnd - oldEnd >= 0 THEN a + newEnd - oldEnd ELSE 0
        /\ Moved(b, edit) = IF b + newEnd - oldEnd >= 0 THEN b + newEnd - oldEnd ELSE 0
    BY <1>5, <2>2
  <2>6. /\ place[i] = "before" => y = b
        /\ place[i] = "after" => y = Moved(b, edit)
        /\ place[i] = "over" => y = IF b <= oldEnd THEN newEnd ELSE Moved(b, edit)
        /\ place[k] = "before" => x = a /\ a <= start
        /\ place[k] = "after" => x = Moved(a, edit)
        /\ place[k] = "over" => x = IF a <= oldEnd THEN newEnd ELSE Moved(a, edit)
    BY <1>7, <2>1
  <2> HIDE DEF a, b, x, y
  <2>7. CASE place[i] = "before"
    BY <2>3, <2>4, <2>6, <2>7 DEF x, y
  <2>8. CASE place[i] = "after"
    <3>1. x = Moved(a, edit) /\ y = Moved(b, edit)
      BY <2>3, <2>6, <2>8
    <3>2. x <= y
      BY <1>4, <2>4, <2>5, <3>1
    <3> QED BY <3>2 DEF x, y
  <2>9. CASE place[i] = "over"
    <3>1. y = IF b <= oldEnd THEN newEnd ELSE Moved(b, edit)
      BY <2>6, <2>9
    <3>2. CASE place[k] = "before"
      <4>1. x <= y
        BY <1>4, <2>4, <2>5, <2>6, <3>1, <3>2
      <4> QED BY <4>1 DEF x, y
    <3>3. CASE place[k] = "after"
      <4>1. x <= y
        BY <1>4, <2>4, <2>5, <2>6, <3>1, <3>3
      <4> QED BY <4>1 DEF x, y
    <3>4. CASE place[k] = "over"
      <4>1. x <= y
        BY <1>4, <2>4, <2>5, <2>6, <3>1, <3>4
      <4> QED BY <4>1 DEF x, y
    <3> QED BY <1>2, <2>1, <3>2, <3>3, <3>4
  <2> QED BY <1>2, <2>7, <2>8, <2>9
<1>10. Snug(u, new) /\ Distinct(u)
  <2>1. \A i \in DOMAIN u : u[i].end <= new
    BY <1>3, <1>7
  <2>2. \A i \in DOMAIN u : \A k \in Under(u, i) : u[k].end <= u[i].end
    BY <1>3, <1>8, <1>9
  <2>3. \A i \in DOMAIN u : u[i].id = i
    BY <1>3 DEF Distinct
  <2> QED BY <2>1, <2>2, <2>3 DEF Snug, Distinct
<1>11. ASSUME Upright(t), \A i \in DOMAIN t : ~ (start < t[i].start /\ t[i].start < oldEnd)
       PROVE  Upright(u)
  <2>1. ASSUME NEW i \in DOMAIN t
        PROVE  /\ place[i] = "before" => u[i].start = t[i].start
               /\ place[i] = "after" => u[i].start = Moved(t[i].start, edit) /\ t[i].start >= oldEnd
               /\ place[i] = "over" => u[i].start = t[i].start /\ t[i].start <= start
    <3>1. /\ place[i] = "before" => u[i].start = t[i].start
          /\ place[i] = "after" => u[i].start = Moved(t[i].start, edit)
          /\ place[i] = "over" => u[i].start = t[i].start
      BY <1>3
    <3>2. place[i] = "after" => t[i].start >= oldEnd
      BY <1>0, <1>11, PlacesAre DEF oldEnd
    <3>3. place[i] = "over" => t[i].start <= start
      BY <1>4, <1>6, <1>7, <1>11
    <3> QED BY <3>1, <3>2, <3>3
  <2>2. ASSUME NEW i \in DOMAIN t PROVE u[i].start <= u[i].end
    <3> DEFINE a == t[i].start  b == t[i].end  x == u[i].start  y == u[i].end
    <3>1. a \in Nat /\ b \in Nat /\ a <= b
      BY <1>6, <1>11 DEF Upright
    <3>2. /\ Moved(a, edit) = IF a + newEnd - oldEnd >= 0 THEN a + newEnd - oldEnd ELSE 0
          /\ Moved(b, edit) = IF b + newEnd - oldEnd >= 0 THEN b + newEnd - oldEnd ELSE 0
      BY <1>5, <3>1
    <3>3. /\ place[i] = "before" => x = a /\ y = b
          /\ place[i] = "after" => x = Moved(a, edit) /\ y = Moved(b, edit)
          /\ place[i] = "over" => /\ x = a /\ a <= start
                                  /\ y = IF b <= oldEnd THEN newEnd ELSE Moved(b, edit)
      BY <1>7, <2>1
    <3> HIDE DEF a, b, x, y
    <3>4. CASE place[i] = "before"
      BY <3>1, <3>3, <3>4 DEF x, y
    <3>5. CASE place[i] = "after"
      <4>1. x <= y
        BY <1>4, <3>1, <3>2, <3>3, <3>5
      <4> QED BY <4>1 DEF x, y
    <3>6. CASE place[i] = "over"
      <4>1. x <= y
        BY <1>4, <3>1, <3>2, <3>3, <3>6
      <4> QED BY <4>1 DEF x, y
    <3> QED BY <1>2, <3>4, <3>5, <3>6
  <2>3. ASSUME NEW i \in DOMAIN t, NEW k \in Under(t, i) PROVE u[i].start <= u[k].start
    <3> DEFINE a == t[i].start  b == t[k].start  x == u[i].start  y == u[k].start
    <3>1. k \in DOMAIN t /\ a \in Nat /\ b \in Nat /\ a <= b
      BY <1>6, <1>8, <1>11 DEF Upright
    <3>2. /\ Moved(a, edit) = IF a + newEnd - oldEnd >= 0 THEN a + newEnd - oldEnd ELSE 0
          /\ Moved(b, edit) = IF b + newEnd - oldEnd >= 0 THEN b + newEnd - oldEnd ELSE 0
      BY <1>5, <3>1
    <3>3. place[i] # "over" => place[k] = place[i]
      BY <1>0, PlacesAre
    <3>4. /\ place[i] = "before" => x = a
          /\ place[i] = "after" => x = Moved(a, edit)
          /\ place[i] = "over" => x = a /\ a <= start
          /\ place[k] = "before" => y = b
          /\ place[k] = "after" => y = Moved(b, edit) /\ b >= oldEnd
          /\ place[k] = "over" => y = b
      BY <2>1, <3>1
    <3> HIDE DEF a, b, x, y
    <3>5. CASE place[i] = "before"
      BY <3>1, <3>3, <3>4, <3>5 DEF x, y
    <3>6. CASE place[i] = "after"
      <4>1. x <= y
        BY <1>4, <3>1, <3>2, <3>3, <3>4, <3>6
      <4> QED BY <4>1 DEF x, y
    <3>7. CASE place[i] = "over"
      <4>1. x = a /\ a <= start
        BY <3>4, <3>7
      <4>2. CASE place[k] = "after"
        <5>1. x <= y
          BY <1>4, <3>1, <3>2, <3>4, <4>1, <4>2
        <5> QED BY <5>1 DEF x, y
      <4>3. CASE place[k] # "after"
        <5>1. y = b
          BY <1>2, <3>1, <3>4, <4>3
        <5>2. x <= y
          BY <3>1, <4>1, <5>1
        <5> QED BY <5>2 DEF x, y
      <4> QED BY <4>2, <4>3
    <3> QED BY <1>2, <3>5, <3>6, <3>7
  <2> QED BY <1>3, <1>8, <2>2, <2>3 DEF Upright
<1> QED BY <1>10, <1>11 DEF u, new, start, oldEnd, newEnd

-----------------------------------------------------------------------------
\* Bytes.  An edit leaves those in front of it, and moves those behind it.

Replaced(s, start, oldEnd, new) == Slice(s, 0, start) \o new \o Slice(s, oldEnd, Len(s))

LEMMA SliceIs ==
    ASSUME NEW s \in Seq(STRING), NEW from \in Nat, NEW to \in Nat, from <= to, to <= Len(s)
    PROVE  /\ Slice(s, from, to) \in Seq(STRING) /\ Len(Slice(s, from, to)) = to - from
           /\ \A k \in 1 .. to - from : Slice(s, from, to)[k] = s[from + k]
<1> DEFINE m == from + 1  u == SubSeq(s, m, to)
<1>1. m \in Int /\ to \in Int /\ \A k \in m .. to : s[k] \in STRING
  OBVIOUS
<1>2. /\ u \in Seq(STRING) /\ Len(u) = IF m <= to THEN to - m + 1 ELSE 0
      /\ \A k \in 1 .. to - m + 1 : u[k] = s[m + k - 1]
  <2> HIDE DEF m
  <2> QED BY <1>1, SubSeqProperties
<1>3. Slice(s, from, to) = u
  BY DEF Slice
<1> HIDE DEF u
<1>4. Len(u) = to - from
  BY <1>2
<1>5. ASSUME NEW k \in 1 .. to - from PROVE u[k] = s[from + k]
  <2>1. k \in 1 .. to - m + 1 /\ m + k - 1 = from + k
    OBVIOUS
  <2> QED BY <1>2, <2>1
<1> QED BY <1>2, <1>3, <1>4, <1>5

\* u holds in first .. last what s holds in from .. to.
Agree(u, first, last, s, from, to) ==
  /\ s \in Seq(STRING) /\ from \in Nat /\ to \in Nat /\ from <= to /\ to <= Len(s)
  /\ u \in Seq(STRING) /\ first \in Nat /\ last \in Nat /\ first <= last /\ last <= Len(u)
  /\ to - from = last - first
  /\ \A k \in 1 .. to - from : u[first + k] = s[from + k]

LEMMA SlicesAgree ==
    ASSUME NEW s, NEW from, NEW to, NEW u, NEW first, NEW last, Agree(u, first, last, s, from, to)
    PROVE  Slice(u, first, last) = Slice(s, from, to)
<1> DEFINE a == Slice(u, first, last)  b == Slice(s, from, to)
<1>1. a \in Seq(STRING) /\ Len(a) = last - first /\ \A k \in 1 .. last - first : a[k] = u[first + k]
  BY SliceIs DEF Agree
<1>2. b \in Seq(STRING) /\ Len(b) = to - from /\ \A k \in 1 .. to - from : b[k] = s[from + k]
  BY SliceIs DEF Agree
<1> HIDE DEF a, b
<1>3. Len(a) = Len(b) /\ \A k \in 1 .. Len(a) : a[k] = b[k]
  BY <1>1, <1>2 DEF Agree
<1>4. a = b
  BY <1>1, <1>2, <1>3, SeqEqual
<1> QED BY <1>4 DEF a, b

LEMMA ReplacedIs ==
    ASSUME NEW s \in Seq(STRING), NEW start \in Nat, NEW oldEnd \in Nat, NEW new \in Seq(STRING),
           start <= oldEnd, oldEnd <= Len(s)
    PROVE  LET u == Replaced(s, start, oldEnd, new)
               newEnd == start + Len(new)
           IN  /\ u \in Seq(STRING) /\ Len(u) = Len(s) + newEnd - oldEnd
               /\ \A k \in 1 .. start : u[k] = s[k]
               /\ \A k \in oldEnd + 1 .. Len(s) : u[k + newEnd - oldEnd] = s[k]
<1> DEFINE a == Slice(s, 0, start)  b == Slice(s, oldEnd, Len(s))  c == a \o new
           u == c \o b  newEnd == start + Len(new)
<1>1. Len(s) \in Nat /\ Len(new) \in Nat /\ newEnd \in Nat /\ 0 \in Nat
  OBVIOUS
<1>2. a \in Seq(STRING) /\ Len(a) = start /\ \A k \in 1 .. start : a[k] = s[k]
  <2>1. a \in Seq(STRING) /\ Len(a) = start - 0 /\ \A k \in 1 .. start - 0 : a[k] = s[0 + k]
    <3>1. 0 <= start /\ start <= Len(s)
      BY <1>1
    <3> QED BY <1>1, <3>1, SliceIs, Zenon
  <2> HIDE DEF a
  <2> QED BY <2>1
<1>3. /\ b \in Seq(STRING) /\ Len(b) = Len(s) - oldEnd
      /\ \A k \in 1 .. Len(s) - oldEnd : b[k] = s[oldEnd + k]
  <2>1. Len(s) <= Len(s)
    BY <1>1
  <2> QED BY <1>1, <2>1, SliceIs, Zenon
<1> HIDE DEF a, b
<1>4. /\ c \in Seq(STRING) /\ Len(c) = newEnd
      /\ \A k \in 1 .. start : c[k] = s[k]
  <2>1. /\ c \in Seq(STRING) /\ Len(c) = Len(a) + Len(new)
        /\ \A k \in 1 .. Len(a) + Len(new) : c[k] = IF k <= Len(a) THEN a[k] ELSE new[k - Len(a)]
    <3>1. a \in Seq(STRING)
      BY <1>2
    <3> QED BY <3>1, ConcatProperties
  <2> HIDE DEF c
  <2>2. c \in Seq(STRING) /\ Len(c) = newEnd
    BY <1>1, <1>2, <2>1
  <2>3. ASSUME NEW k \in 1 .. start PROVE c[k] = s[k]
    <3>1. k \in 1 .. Len(a) + Len(new) /\ k <= Len(a)
      BY <1>1, <1>2
    <3> QED BY <1>2, <2>1, <3>1
  <2> QED BY <2>2, <2>3
<1> HIDE DEF c
<1>5. /\ u \in Seq(STRING) /\ Len(u) = Len(c) + Len(b)
      /\ \A k \in 1 .. Len(c) + Len(b) : u[k] = IF k <= Len(c) THEN c[k] ELSE b[k - Len(c)]
  <2>1. b \in Seq(STRING) /\ c \in Seq(STRING)
    BY <1>3, <1>4
  <2> QED BY <2>1, ConcatProperties
<1>6. Replaced(s, start, oldEnd, new) = u
  BY DEF Replaced, a, b, c
<1> HIDE DEF u
<1>7. \A k \in 1 .. start : u[k] = s[k]
  BY <1>1, <1>3, <1>4, <1>5
<1>8. ASSUME NEW k \in oldEnd + 1 .. Len(s) PROVE u[k + newEnd - oldEnd] = s[k]
  <2> DEFINE m == k + newEnd - oldEnd  l == k - oldEnd
  <2>1. /\ m \in newEnd + 1 .. Len(c) + Len(b) /\ m - Len(c) = l
        /\ l \in 1 .. Len(s) - oldEnd /\ oldEnd + l = k
    BY <1>1, <1>3, <1>4
  <2>2. u[m] = b[l]
    <3> HIDE DEF m, l
    <3> QED BY <1>1, <1>4, <1>5, <2>1
  <2>3. b[l] = s[k]
    <3> HIDE DEF l
    <3> QED BY <1>3, <2>1
  <2> QED BY <2>2, <2>3
<1>9. Len(u) = Len(s) + newEnd - oldEnd
  BY <1>1, <1>3, <1>4, <1>5
<1> QED BY <1>5, <1>6, <1>7, <1>8, <1>9

\* The clean nodes of a tree have the bytes they were made of.
Faithful(t, s, old) ==
  \A i \in DOMAIN t :
    ~ t[i].dirty => Slice(s, t[i].start, t[i].end) = Slice(old, t[i].was[1], t[i].was[2])

LEMMA EditedFaithful ==
    ASSUME NEW s \in Seq(STRING), NEW old, NEW t, Forest(t), Snug(t, Len(s)), Distinct(t),
           Upright(t), Faithful(t, s, old),
           NEW start \in Nat, NEW oldEnd \in Nat, NEW new \in Seq(STRING),
           start <= oldEnd, oldEnd <= Len(s)
    PROVE  Faithful(Edited(t, [start |-> start, oldEnd |-> oldEnd, newEnd |-> start + Len(new)]),
                    Replaced(s, start, oldEnd, new), old)
<1> DEFINE edit == [start |-> start, oldEnd |-> oldEnd, newEnd |-> start + Len(new)]
           newEnd == start + Len(new)
           u == Edited(t, edit)  s2 == Replaced(s, start, oldEnd, new)
<1>1. IsEdit(edit) /\ edit.start = start /\ edit.oldEnd = oldEnd /\ edit.newEnd = newEnd
      /\ newEnd \in Nat /\ start <= newEnd
  BY DEF IsEdit
<1>2. t \in Seq(TreeNode) /\ DOMAIN t = 1 .. Len(t) /\ Len(t) \in Nat /\ Len(s) \in Nat
  BY DEF Forest
<1>3. /\ s2 \in Seq(STRING) /\ Len(s2) = Len(s) + newEnd - oldEnd
      /\ \A k \in 1 .. start : s2[k] = s[k]
      /\ \A k \in oldEnd + 1 .. Len(s) : s2[k + newEnd - oldEnd] = s[k]
  BY ReplacedIs
<1> HIDE DEF edit, newEnd, s2
<1>0. PICK place : Visits(t, edit, place)
  BY <1>1, VisitsExist
<1>4. \A i \in DOMAIN t : place[i] \in {"before", "after", "over"}
  BY <1>0, <1>1, PlacesAre DEF Sides
<1>5. DOMAIN u = DOMAIN t /\ \A i \in DOMAIN t : Moves(t[i], u[i], place[i], edit)
  BY <1>0, <1>1, VisitsMove
<1>6. \A i \in DOMAIN t : /\ place[i] = "before" => t[i].end <= start
                          /\ place[i] = "after" => t[i].start >= oldEnd
  BY <1>0, <1>1, PlacesAre
<1> HIDE DEF u
<1>7. ASSUME NEW i \in DOMAIN t, ~ u[i].dirty
      PROVE  Slice(s2, u[i].start, u[i].end) = Slice(old, u[i].was[1], u[i].was[2])
  <2> DEFINE a == t[i].start  b == t[i].end
  <2>1. a \in Nat /\ b \in Nat /\ a <= b /\ b <= Len(s)
    BY <1>2, NodeFacts DEF Snug, Upright
  <2>2. place[i] \in {"before", "after"}
    BY <1>4, <1>5, <1>7 DEF Moves
  <2>3. ~ t[i].dirty /\ u[i].was = t[i].was
    BY <1>5, <1>7, <2>2 DEF Moves
  <2>4. Slice(s, a, b) = Slice(old, u[i].was[1], u[i].was[2])
    BY <2>3 DEF Faithful
  <2>5. CASE place[i] = "before"
    <3>1. u[i].start = a /\ u[i].end = b /\ b <= start
      BY <1>5, <1>6, <2>5 DEF Moves
    <3> HIDE DEF a, b
    <3>2. b <= Len(s2)
      <4>1. start <= Len(s2) /\ Len(s2) \in Nat
        <5>1. Len(s2) = Len(s) + newEnd - oldEnd
          BY <1>3
        <5> QED BY <1>1, <1>2, <5>1
      <4>2. b <= start
        BY <3>1
      <4> QED BY <2>1, <4>1, <4>2
    <3>3. ASSUME NEW k \in 1 .. b - a PROVE s2[a + k] = s[a + k]
      <4>1. a + k \in 1 .. start
        BY <1>2, <2>1, <3>1
      <4> QED BY <1>3, <4>1
    <3>4. Slice(s2, a, b) = Slice(s, a, b)
      <4>1. s2 \in Seq(STRING)
        BY <1>3
      <4>2. Agree(s2, a, b, s, a, b)
        BY <2>1, <3>2, <3>3, <4>1 DEF Agree
      <4> QED BY <4>2, SlicesAgree
    <3> QED BY <2>4, <3>1, <3>4
  <2>6. CASE place[i] = "after"
    <3>1. u[i].start = Moved(a, edit) /\ u[i].end = Moved(b, edit) /\ a >= oldEnd
      BY <1>5, <1>6, <2>6 DEF Moves
    <3> DEFINE c == a + newEnd - oldEnd  d == b + newEnd - oldEnd
    <3> HIDE DEF a, b
    <3>2. Moved(a, edit) = c /\ Moved(b, edit) = d
      <4>1. c >= 0 /\ d >= 0
        BY <1>1, <2>1, <3>1
      <4> QED BY <1>1, <2>1, <4>1, MovedFacts
    <3>3. c \in Nat /\ d \in Nat /\ c <= d /\ d <= Len(s2) /\ b - a = d - c
      <4> DEFINE n == Len(s)  m == Len(s2)
      <4>1. m = n + newEnd - oldEnd /\ n \in Nat /\ b <= n
        BY <1>2, <1>3, <2>1
      <4> HIDE DEF n, m
      <4>2. c \in Nat /\ d \in Nat /\ c <= d /\ d <= m /\ b - a = d - c
        BY <1>1, <2>1, <3>1, <4>1
      <4> QED BY <4>2 DEF m
    <3>4. ASSUME NEW k \in 1 .. b - a PROVE s2[c + k] = s[a + k]
      <4>1. a + k \in oldEnd + 1 .. Len(s) /\ (a + k) + newEnd - oldEnd = c + k
        BY <1>1, <1>2, <2>1, <3>1
      <4> HIDE DEF c, d
      <4>2. s2[(a + k) + newEnd - oldEnd] = s[a + k]
        BY <1>3, <4>1
      <4> QED BY <4>1, <4>2
    <3> HIDE DEF c, d
    <3>5. Slice(s2, c, d) = Slice(s, a, b)
      <4>1. s2 \in Seq(STRING)
        BY <1>3
      <4>2. Agree(s2, c, d, s, a, b)
        BY <2>1, <3>3, <3>4, <4>1 DEF Agree
      <4> QED BY <4>2, SlicesAgree
    <3> QED BY <2>4, <3>1, <3>2, <3>5
  <2> QED BY <2>2, <2>5, <2>6
<1>8. Faithful(u, s2, old)
  BY <1>5, <1>7 DEF Faithful
<1> QED BY <1>8 DEF u, s2, edit, newEnd

-----------------------------------------------------------------------------
\* The jobs of the two kinds of parse.

LEMMA FreshJobOK ==
    ASSUME NEW s \in Seq(STRING)
    PROVE  JobOK(FreshJob(s), TRUE, TRUE)
<1> DEFINE j == FreshJob(s)
<1>1. j.text = s /\ j.tree = << >> /\ j.fit = {} /\ j.root = None
  BY DEF FreshJob
<1>2. None \in Names
  BY NamesAre DEF None
<1>3. Len(s) \in Nat /\ << >> \in Seq(TreeNode) /\ DOMAIN << >> = {}
  OBVIOUS
<1>4. Good(<< >>, Len(s), TRUE, TRUE)
  BY <1>3 DEF Good, Forest, Snug, Upright
<1> HIDE DEF j
<1>5. JobOK(j, TRUE, TRUE)
  BY <1>1, <1>2, <1>4 DEF JobOK
<1> QED BY <1>5 DEF j

LEMMA ReuseJobOK ==
    ASSUME NEW new \in Seq(STRING), NEW old, NEW t, Forest(t), NEW firstEdit,
           NEW snug, snug => Snug(t, Len(new)), NEW strict, strict => Upright(t)
    PROVE  JobOK(ReuseJob(new, old, t, firstEdit), snug, strict)
<1> DEFINE j == ReuseJob(new, old, t, firstEdit)
<1>1. /\ j.text = new /\ j.tree = t /\ j.fit = Fit(t, old, new, firstEdit)
      /\ j.root = IF t = << >> THEN None ELSE t[1].symbol
  BY DEF ReuseJob
<1>2. t \in Seq(TreeNode)
  BY DEF Forest
<1>3. j.root \in Names
  <2>1. None \in Names
    BY NamesAre DEF None
  <2>2. t # << >> => t[1].symbol \in Names
    <3>1. t # << >> => t[1] \in TreeNode
      BY <1>2
    <3> QED BY <3>1 DEF TreeNode
  <2> HIDE DEF j
  <2> QED BY <1>1, <2>1, <2>2
<1>4. Good(t, Len(new), snug, strict)
  BY DEF Good
<1>5. /\ Fit(t, old, new, firstEdit) \subseteq DOMAIN t
      /\ \A i \in Fit(t, old, new, firstEdit) : t[i].start < t[i].end /\ t[i].end <= Len(new)
  BY DEF Fit
<1> HIDE DEF j
<1>6. JobOK(j, snug, strict)
  BY <1>1, <1>3, <1>4, <1>5 DEF JobOK
<1> QED BY <1>6 DEF j

-----------------------------------------------------------------------------
(***************************************************************************)
(* The invariant.  The tree is a forest.  Until a parent is made that does *)
(* not span its last extras, or a node is put into the tree twice, all of  *)
(* it ends within the text: edits never grow a node over those above it,   *)
(* and a parse puts only whole old nodes into the new tree, behind what    *)
(* the stack has.  Until an edit removes the beginning of a node, too, no  *)
(* node begins in front of those above it, which is what makes a node      *)
(* behind an edit lie behind it with all that is below it, so that its     *)
(* bytes move as it does.                                                  *)
(***************************************************************************)
Flaws == {"cutStart", "longerToken", "notUndone", "otherLookahead", "otherMode",
          "otherRoot", "otherScanner", "strayExtra", "rootExtra", "sharedNode"}

IInv ==
  /\ name \in DOMAIN Languages
  /\ text \in Seq(STRING) /\ source \in Seq(STRING)
  /\ Forest(nodes)
  /\ ~ ExtrasAstray => Snug(nodes, Len(text)) /\ Distinct(nodes)
  /\ "cutStart" \notin met /\ ~ ExtrasAstray =>
       Upright(nodes) /\ Faithful(nodes, text, source)
  /\ edits \subseteq Nat /\ edited \in 0 .. MaxEdits /\ met \subseteq Flaws

\* A new tree has the bytes it was made of.
LEMMA MadeFaithful ==
    ASSUME NEW t, NEW s, Made(t)
    PROVE  Faithful(t, s, s)
<1> SUFFICES ASSUME NEW i \in DOMAIN t
             PROVE  Slice(s, t[i].start, t[i].end) = Slice(s, t[i].was[1], t[i].was[2])
  BY DEF Faithful
<1>1. t[i].was = <<t[i].start, t[i].end>>
  BY DEF Made
<1> QED BY <1>1

\* A parse makes a good tree of a good job, and says when one is not snug.
LEMMA ParsedGood ==
    ASSUME name \in DOMAIN Languages, NEW j, NEW snug, NEW strict, JobOK(j, snug, strict),
           NEW r, r = Run(j)
    PROVE  LET t == Parsed(j, r)
           IN  /\ Forest(t) /\ Made(t) /\ Met(j, r) \subseteq Flaws
               /\ Met(j, r) \cap {"strayExtra", "sharedNode"} = {} =>
                    /\ Distinct(t)
                    /\ snug => Snug(t, Len(j.text))
               /\ strict => Upright(t)
<1> DEFINE t == Parsed(j, r)  res == Result(j, r)  len == Len(j.text)
<1>1. RunOK(j, r, snug, strict)
  BY RunKeeps
<1>2. Good(res, len, snug /\ Calm(r), strict)
  BY <1>1, ResultGood
<1>3. t = Settle(j, r, res)
  BY DEF Parsed
<1>4. Good(t, len, snug /\ Calm(r), strict) /\ Made(t)
  <2> DEFINE calm == snug /\ Calm(r)
  <2>1. Good(res, len, calm, strict)
    BY <1>2
  <2> HIDE DEF calm, res, len, t
  <2>2. Good(t, len, calm, strict) /\ Made(t)
    BY <1>3, <2>1, SettleGood
  <2> QED BY <2>2 DEF calm
<1> HIDE DEF res
<1>5. r.met \subseteq Reliances
  BY <1>1, RunFields DEF RunOK
<1>6. Met(j, r) = r.met \cup (IF Result(j, r) # Result([j EXCEPT !.root = None], r)
                                 THEN {"otherRoot"} ELSE {})
                        \cup (IF Doubled(t) THEN {"sharedNode"} ELSE {})
  BY DEF Met
<1> HIDE DEF t
<1>7. Met(j, r) \subseteq Flaws
  BY <1>5, <1>6 DEF Flaws, Reliances
<1>8. ASSUME Met(j, r) \cap {"strayExtra", "sharedNode"} = {}
      PROVE  Distinct(t) /\ (snug => Snug(t, len))
  <2>1. Calm(r)
    BY <1>6, <1>8 DEF Calm
  <2>2. ~ Doubled(t)
    BY <1>6, <1>8
  <2> QED BY <1>4, <2>1, <2>2 DEF Good, Distinct, Doubled
<1>9. Forest(t) /\ Made(t) /\ (strict => Upright(t))
  BY <1>4 DEF Good
<1> QED BY <1>7, <1>8, <1>9 DEF t, len

LEMMA InitKeeps == Init => IInv
<1> SUFFICES ASSUME Init PROVE IInv
  OBVIOUS
<1>1. name \in DOMAIN Languages /\ text \in Seq(STRING) /\ source = text
  BY TextsAreBytes DEF Init
<1> DEFINE j == FreshJob(text)
<1>2. JobOK(j, TRUE, TRUE) /\ j.text = text
  BY <1>1, FreshJobOK DEF FreshJob
<1> DEFINE r == Run(j)
<1>3. nodes = Parsed(j, r) /\ met = Met(j, r)
  BY DEF Init
<1> HIDE DEF j
<1>4. /\ Forest(nodes) /\ Made(nodes) /\ met \subseteq Flaws
      /\ ~ ExtrasAstray => Snug(nodes, Len(text)) /\ Distinct(nodes)
      /\ Upright(nodes)
  <2> HIDE DEF r
  <2>1. r = Run(j)
    BY DEF r
  <2> QED BY <1>1, <1>2, <1>3, <2>1, ParsedGood DEF ExtrasAstray
<1>5. Faithful(nodes, text, source)
  BY <1>1, <1>4, MadeFaithful
<1>6. edits \subseteq Nat /\ edited \in 0 .. MaxEdits
  BY EditsBound DEF Init
<1> QED BY <1>1, <1>4, <1>5, <1>6 DEF IInv

LEMMA EditKeeps ==
    ASSUME IInv, NEW start \in 0 .. Len(text), NEW oldEnd \in 0 .. Len(text),
           NEW new \in Inserts[name], start <= oldEnd, Edit(start, oldEnd, new)
    PROVE  IInv'
<1> DEFINE edit == [start |-> start, oldEnd |-> oldEnd, newEnd |-> start + Len(new)]
           newEnd == start + Len(new)
           s == text  t == nodes  u == Edited(t, edit)  s2 == Replaced(s, start, oldEnd, new)
           cut == \E i \in DOMAIN t : start < t[i].start /\ t[i].start < oldEnd
<1>1. /\ s \in Seq(STRING) /\ Len(s) \in Nat /\ Forest(t) /\ new \in Seq(STRING)
      /\ start \in Nat /\ oldEnd \in Nat /\ oldEnd <= Len(s) /\ Len(new) \in Nat
  BY TextsAreBytes DEF IInv
<1>2. /\ text' = s2 /\ nodes' = u /\ edits' = edits \cup {start} /\ edited' = edited + 1
      /\ edited < MaxEdits /\ name' = name /\ source' = source
  BY DEF Edit, Replaced
<1>3. met' = met \cup (IF cut THEN {"cutStart"} ELSE {})
  BY DEF Edit
<1>4. /\ IsEdit(edit) /\ edit.start = start /\ edit.oldEnd = oldEnd /\ edit.newEnd = newEnd
      /\ newEnd \in Nat
  BY <1>1 DEF IsEdit
<1> HIDE DEF edit, newEnd
<1>5. s2 \in Seq(STRING) /\ Len(s2) = Len(s) + newEnd - oldEnd
  BY <1>1, ReplacedIs DEF newEnd
<1>6. Forest(u)
  BY <1>1, <1>4, EditedForm
<1>7. ASSUME Snug(t, Len(s)), Distinct(t)
      PROVE  /\ Snug(u, Len(s) + edit.newEnd - edit.oldEnd) /\ Distinct(u)
             /\ Upright(t) /\ ~ cut => Upright(u)
             /\ Upright(t) /\ Faithful(t, s, source) => Faithful(u, s2, source)
  <2>1. /\ Snug(u, Len(s) + edit.newEnd - edit.oldEnd) /\ Distinct(u)
        /\ /\ Upright(t)
           /\ \A i \in DOMAIN t : ~ (edit.start < t[i].start /\ t[i].start < edit.oldEnd)
           => Upright(u)
    BY <1>1, <1>4, <1>7, EditedGood
  <2>2. Upright(t) /\ Faithful(t, s, source) => Faithful(u, s2, source)
    BY <1>1, <1>7, EditedFaithful DEF edit
  <2> HIDE DEF u, s2
  <2> QED BY <1>4, <2>1, <2>2
<1> HIDE DEF u, s2
<1>8. ExtrasAstray' <=> ExtrasAstray
  BY <1>3 DEF ExtrasAstray
<1>9. ASSUME ~ ExtrasAstray'
      PROVE  /\ Snug(u, Len(s2)) /\ Distinct(u)
             /\ "cutStart" \notin met' => Upright(u) /\ Faithful(u, s2, source)
  <2>1. Snug(t, Len(s)) /\ Distinct(t)
    BY <1>8, <1>9 DEF IInv
  <2>2. Snug(u, Len(s2)) /\ Distinct(u)
    BY <1>4, <1>5, <1>7, <2>1
  <2>3. ASSUME "cutStart" \notin met' PROVE Upright(u) /\ Faithful(u, s2, source)
    <3>1. ~ cut /\ "cutStart" \notin met
      BY <1>3, <2>3
    <3>2. Upright(t) /\ Faithful(t, s, source)
      BY <1>8, <1>9, <3>1 DEF IInv
    <3> QED BY <1>7, <2>1, <3>1, <3>2
  <2> QED BY <2>2, <2>3
<1>10. met' \subseteq Flaws
  BY <1>3 DEF IInv, Flaws
<1>11. edits' \subseteq Nat /\ edited' \in 0 .. MaxEdits
  <2>1. edited \in 0 .. MaxEdits /\ MaxEdits \in Nat /\ edits \subseteq Nat
    BY EditsBound DEF IInv
  <2> QED BY <1>1, <1>2, <2>1
<1>12. name' \in DOMAIN Languages /\ source' \in Seq(STRING)
  BY <1>2 DEF IInv
<1> HIDE DEF s, t, cut
<1> QED BY <1>2, <1>5, <1>6, <1>9, <1>10, <1>11, <1>12 DEF IInv

LEMMA ReparseKeeps ==
    ASSUME IInv, Reparse
    PROVE  IInv'
<1>1. PICK j, r : /\ j = ReuseJob(text, source, nodes, Min(edits)) /\ r = Run(j)
                  /\ nodes' = Parsed(j, r) /\ met' = met \cup Met(j, r)
  BY DEF Reparse
<1>2. source' = text /\ edits' = {} /\ name' = name /\ text' = text /\ edited' = edited
  BY DEF Reparse
<1> DEFINE snug == ~ ExtrasAstray
           strict == "cutStart" \notin met /\ ~ ExtrasAstray
           len == Len(text)
<1>3. name \in DOMAIN Languages /\ text \in Seq(STRING) /\ Forest(nodes)
      /\ (snug => Snug(nodes, len)) /\ (strict => Upright(nodes))
  BY DEF IInv
<1> HIDE DEF snug, strict
<1>4. JobOK(j, snug, strict) /\ j.text = text
  <2>1. JobOK(ReuseJob(text, source, nodes, Min(edits)), snug, strict)
    BY <1>3, ReuseJobOK
  <2>2. j.text = text
    BY <1>1 DEF ReuseJob
  <2> QED BY <1>1, <2>1, <2>2
<1> DEFINE u == Parsed(j, r)  m == Met(j, r)
<1>5. /\ Forest(u) /\ Made(u) /\ m \subseteq Flaws
      /\ m \cap {"strayExtra", "sharedNode"} = {} =>
           Distinct(u) /\ (snug => Snug(u, len))
      /\ strict => Upright(u)
  BY <1>1, <1>3, <1>4, ParsedGood
<1>6. nodes' = u /\ met' = met \cup m
  BY <1>1
<1> HIDE DEF u, m
<1>7. Faithful(u, text, text)
  BY <1>5, MadeFaithful
<1>8. met' \subseteq Flaws /\ met \subseteq met'
  BY <1>5, <1>6 DEF IInv
<1>9. ASSUME ~ ExtrasAstray'
      PROVE  /\ Snug(u, len) /\ Distinct(u)
             /\ "cutStart" \notin met' => Upright(u) /\ Faithful(u, text, text)
  <2>1. snug /\ m \cap {"strayExtra", "sharedNode"} = {}
    BY <1>6, <1>9 DEF ExtrasAstray, snug
  <2>2. "cutStart" \notin met' => strict
    BY <1>8, <2>1 DEF strict, snug
  <2> QED BY <1>5, <1>7, <2>1, <2>2
<1>10. /\ name' \in DOMAIN Languages /\ text' \in Seq(STRING) /\ source' \in Seq(STRING)
       /\ edits' \subseteq Nat /\ edited' \in 0 .. MaxEdits
  BY <1>2 DEF IInv
<1> QED BY <1>2, <1>5, <1>6, <1>8, <1>9, <1>10 DEF IInv

LEMMA StutterKeeps ==
    ASSUME IInv, UNCHANGED vars
    PROVE  IInv'
BY DEF IInv, vars, ExtrasAstray

\* Whatever the user edits and however often the text is parsed again, the
\* tree stays a forest; until a parse leaves its last extras out of a
\* parent's span or puts a node into the tree twice, one within the text;
\* and until an edit removes the beginning of a node, too, one that stands
\* upright and whose clean nodes have the bytes they were parsed from.
THEOREM Invariant == Spec => []IInv
<1>1. Init => IInv
  BY InitKeeps
<1>2. ASSUME IInv, [Next]_vars PROVE IInv'
  <2>1. ASSUME NEW start \in 0 .. Len(text), NEW oldEnd \in 0 .. Len(text),
               NEW new \in Inserts[name], start <= oldEnd, Edit(start, oldEnd, new)
        PROVE  IInv'
    BY <1>2, <2>1, EditKeeps
  <2>2. CASE Reparse
    BY <1>2, <2>2, ReparseKeeps
  <2>3. CASE UNCHANGED vars
    BY <1>2, <2>3, StutterKeeps
  <2> QED BY <1>2, <2>1, <2>2, <2>3 DEF Next
<1> QED BY <1>1, <1>2, PTL DEF Spec

\* The types of the state; the subtree of a node ends within the nodes of the
\* tree, and every node within the text as it is after the last edit, unless
\* extras are outside their parents' spans or in the tree twice.
THEOREM TypeCorrect == Spec => []TypeOK
<1>1. IInv => TypeOK
  <2> SUFFICES ASSUME IInv PROVE TypeOK
    OBVIOUS
  <2>1. nodes \in Seq(TreeNode) /\ Len(nodes) \in Nat /\ DOMAIN nodes = 1 .. Len(nodes)
    BY DEF IInv, Forest
  <2>2. ASSUME NEW i \in DOMAIN nodes
        PROVE  /\ nodes[i].start \in Nat /\ nodes[i].end \in Nat
               /\ ~ ExtrasAstray => nodes[i].end <= Len(text)
               /\ nodes[i].size \in 1 .. Len(nodes) + 1 - i
               /\ nodes[i].dirty \in BOOLEAN /\ nodes[i].error \in BOOLEAN
    <3> DEFINE x == nodes[i]
    <3>1. x \in TreeNode
      BY <2>1
    <3>2. x.start \in Nat /\ x.end \in Nat /\ x.size \in Nat \ {0}
      BY <3>1 DEF TreeNode
    <3>3. x.dirty \in BOOLEAN /\ x.error \in BOOLEAN
      BY <3>1 DEF TreeNode
    <3>4. (~ ExtrasAstray => x.end <= Len(text)) /\ i + x.size <= Len(nodes) + 1
      BY DEF IInv, Forest, Snug
    <3> HIDE DEF x
    <3>5. x.size \in 1 .. Len(nodes) + 1 - i
      BY <2>1, <3>2, <3>4
    <3> QED BY <3>2, <3>3, <3>4, <3>5 DEF x
  <2>3. met \subseteq {"cutStart", "longerToken", "notUndone", "otherLookahead", "otherMode",
                       "otherRoot", "otherScanner", "strayExtra", "rootExtra", "sharedNode"}
    BY DEF IInv, Flaws
  <2> QED BY <2>2, <2>3 DEF IInv, TypeOK
<1> QED BY <1>1, Invariant, PTL

\* However edits pile up before the next parse, a node that is not dirty
\* spans the text it was parsed from, where that text is now, unless an edit
\* has removed the beginning of a node, or extras are outside their parents'
\* spans or in the tree twice.
THEOREM CleanNodes == Spec => []CleanNodesKeepTheirText
<1>1. IInv => CleanNodesKeepTheirText
  BY DEF IInv, Upright, Faithful, CleanNodesKeepTheirText
<1> QED BY <1>1, Invariant, PTL
=============================================================================
