------------------------------ MODULE ParseTables ------------------------------
(***************************************************************************)
(* The parse tables, as cmd/ts2go makes them from the arrays of a          *)
(* generated parser (extract.go, embedded.go), and as the parser looks     *)
(* actions and states up in them (parser.go).                              *)
(*                                                                         *)
(* A source is a record:                                                   *)
(*   symbols     the names of the enum, the end of input first             *)
(*   tokenCount, stateCount, largeStateCount                               *)
(*   rows        ts_parse_table: from states to the entries of symbols,    *)
(*               each with the macro it is written with, or ""             *)
(*   small       the items of ts_small_parse_table: the index of an entry, *)
(*               a macro with its number, a number, or a name              *)
(*   smallMap    ts_small_parse_table_map: from states to offsets          *)
(*   actions     the lines of ts_parse_actions: a header or none, and the  *)
(*               calls behind it                                           *)
(* What may not be there is a set of at most one.                          *)
(***************************************************************************)
EXTENDS Integers, Sequences, FiniteSets
LOCAL INSTANCE SequencesExt
LOCAL INSTANCE FiniteSetsExt

ResolveSymbol(source, name) == {i - 1 : i \in {j \in DOMAIN source.symbols : source.symbols[j] = name}}
SymbolCount(source) == Len(source.symbols)
-----------------------------------------------------------------------------
(* The dense table, and the small one.                                     *)

DenseStateCount(source) ==
    CASE source.largeStateCount > 0 -> source.largeStateCount
      [] source.stateCount > 0      -> source.stateCount
      [] OTHER -> Max({s + 1 : s \in DOMAIN source.rows} \cup {0})

\* Entries written as plain numbers are read only where all of a row are.
EntriesRead(row) ==
    LET byMacro == {name \in DOMAIN row : row[name].macro # ""}
    IN  IF byMacro # {} THEN byMacro ELSE DOMAIN row
RowOf(source, row) ==
    [sym \in 0 .. SymbolCount(source) - 1 |->
        LET named == {name \in EntriesRead(row) : sym \in ResolveSymbol(source, name)}
        IN  IF named = {} THEN 0 ELSE row[CHOOSE name \in named : TRUE].number]
NoRow == [name \in {} |-> 0]
ExtractParseTable(source) ==
    [state \in 0 .. DenseStateCount(source) - 1 |->
        RowOf(source, IF state \in DOMAIN source.rows THEN source.rows[state] ELSE NoRow)]

\* Flat: a state's number of groups, and for each its value, the number of
\* its symbols and the symbols.
SmallValue(source, item) ==
    CASE item.kind = "index" -> << >>
      [] item.kind = "name"  -> SetToSeq(ResolveSymbol(source, item.name))
      [] OTHER -> <<item.number>>
ParseSmallParseTableValues(source) ==
    FoldLeft(LAMBDA values, item : values \o SmallValue(source, item), << >>, source.small)

ParseSmallParseTableMap(source) ==
    LET Index(n) == IF n >= source.largeStateCount THEN n - source.largeStateCount ELSE n
        known(i) == {n \in DOMAIN source.smallMap : Index(n) = i}
    IN  [i \in 0 .. Max({Index(n) : n \in DOMAIN source.smallMap} \cup {0}) |->
            IF known(i) = {} THEN 0 ELSE source.smallMap[CHOOSE n \in known(i) : TRUE]]
-----------------------------------------------------------------------------
(* The actions, in groups at the index their header has in C.              *)

ExtractedAction(type) ==
    [type |-> type, state |-> 0, extra |-> FALSE, repetition |-> FALSE,
     symbol |-> 0, count |-> 0, prec |-> 0, production |-> 0]

\* REDUCE(symbol, count, ...): precedence and production by position or by
\* name; what is given by position wins.
ParseReduceActionArgs(source, args) ==
    LET byName(keys) == {i \in 3 .. Len(args) : args[i].key \in keys}
        plain        == SelectSeq(SubSeq(args, 3, Len(args)), LAMBDA a : a.key = "")
        Given(place, keys) ==
            IF Len(plain) >= place THEN plain[place].number
            ELSE IF byName(keys) = {} THEN 0 ELSE args[Max(byName(keys))].number
        symbol == ResolveSymbol(source, args[1])
    IN  IF Len(args) < 2 THEN << >>
        ELSE << [ExtractedAction("reduce") EXCEPT
                    !.symbol = IF symbol = {} THEN 0 ELSE CHOOSE s \in symbol : TRUE,
                    !.count = args[2], !.prec = Given(1, {"dynamic_precedence", "precedence", "prec"}),
                    !.production = Given(2, {"production_id"})] >>

ActionCalled(source, call) ==
    CASE call.macro = "SHIFT"        -> << [ExtractedAction("shift") EXCEPT !.state = call.args[1]] >>
      [] call.macro = "SHIFT_REPEAT" -> << [ExtractedAction("shift") EXCEPT !.state = call.args[1], !.repetition = TRUE] >>
      [] call.macro = "SHIFT_EXTRA"  -> << [ExtractedAction("shift") EXCEPT !.extra = TRUE] >>
      [] call.macro = "REDUCE"       -> ParseReduceActionArgs(source, call.args)
      [] call.macro = "ACCEPT_INPUT" -> << ExtractedAction("accept") >>
      [] call.macro = "RECOVER"      -> << ExtractedAction("recover") >>
      [] OTHER -> << >>
ActionsIn(source, line) == FoldLeft(LAMBDA acts, call : acts \o ActionCalled(source, call), << >>, line.calls)

\* A header without an index is behind the group before it; a line without a
\* header goes on with the group.
NextCIndex(groups) == IF groups = << >> THEN 0 ELSE Last(groups).index + 1 + Last(groups).count
GroupBegun(groups, h, actions) ==
    Append(groups, [index |-> IF h.index = {} THEN NextCIndex(groups) ELSE CHOOSE i \in h.index : TRUE,
                    count |-> h.count, actions |-> actions])
WithLine(groups, header, actions) ==
    IF header # {} THEN GroupBegun(groups, CHOOSE h \in header : TRUE, actions)
    ELSE IF groups = << >> THEN groups
    ELSE [groups EXCEPT ![Len(groups)].actions = @ \o actions]
ExtractParseActions(source) ==
    FoldLeft(LAMBDA groups, line : WithLine(groups, line.header, ActionsIn(source, line)), << >>, source.actions)

\* The group at each index; between the headers there is nothing.
BuildParseActions(groups) ==
    LET At(i) == {k \in DOMAIN groups : groups[k].index = i}
    IN  IF groups = << >> THEN << >>
        ELSE [i \in 0 .. Max({groups[k].index : k \in DOMAIN groups}) |->
                 IF At(i) = {} THEN << >> ELSE groups[Max(At(i))].actions]
-----------------------------------------------------------------------------
\* What has been read, as a language.
BuildLanguage(source) ==
    [symbolCount |-> SymbolCount(source), tokenCount |-> source.tokenCount, stateCount |-> source.stateCount,
     largeStateCount |-> source.largeStateCount, initialState |-> 1,
     parseTable |-> ExtractParseTable(source),
     smallParseTable |-> ParseSmallParseTableValues(source),
     smallParseTableMap |-> IF source.small = << >> THEN << >> ELSE ParseSmallParseTableMap(source),
     parseActions |-> BuildParseActions(ExtractParseActions(source))]

\* The pooled row that a row is shared with has all of its entries
\* (compact.go); rows with the same hash are in one bucket.
HashUint16s(row) == Cardinality({sym \in DOMAIN row : row[sym] # 0}) % 2
SameRowByHash(a, b) == HashUint16s(a) = HashUint16s(b)   \* faulty variant
SameRow(a, b) == HashUint16s(a) = HashUint16s(b) /\ a = b
InternUint16Rows(table) ==
    [state \in DOMAIN table |-> table[Min({s \in 0 .. state : SameRow(table[s], table[state])})]]

\* The value of a symbol in the groups of a small table, from a place on.
InGroups(table, from, groups, sym) ==
    LET Ends(at)  == Min({at + 1 + table[at + 2], Len(table) - 1})
        Holds(at) == \E i \in at + 2 .. Ends(at) : table[i + 1] = sym
        Tried(r, k) ==
            IF r.found \/ r.at + 1 >= Len(table) THEN r
            ELSE IF Holds(r.at) THEN [r EXCEPT !.found = TRUE, !.value = table[r.at + 1]]
            ELSE [r EXCEPT !.at = Ends(r.at) + 1]
    IN  FoldLeft(Tried, [at |-> from, found |-> FALSE, value |-> 0], [k \in 1 .. groups |-> k]).value

SmallActionIndex(table, offset, sym) ==
    IF offset >= Len(table) THEN 0 ELSE InGroups(table, offset + 1, table[offset + 1], sym)
LookupActionIndex(l, state, sym) ==
    LET dense == IF l.largeStateCount > 0 THEN state < l.largeStateCount ELSE state \in DOMAIN l.parseTable
        small == state - l.largeStateCount
    IN  IF dense
        THEN IF state \in DOMAIN l.parseTable /\ sym \in DOMAIN l.parseTable[state]
             THEN l.parseTable[state][sym] ELSE 0
        ELSE IF small \notin DOMAIN l.smallParseTableMap THEN 0
        ELSE SmallActionIndex(l.smallParseTable, l.smallParseTableMap[small], sym)

ActionsAtIndex(l, index) ==
    IF index = 0 \/ index \notin DOMAIN l.parseActions THEN << >> ELSE l.parseActions[index]
LookupAction(l, state, sym) == ActionsAtIndex(l, LookupActionIndex(l, state, sym))

\* Tables of ts2go name the state itself; those built by hand a group whose
\* first action shifts to it.
StateOf(acts) == IF acts # << >> /\ acts[1].type = "shift" THEN acts[1].state ELSE 0
GotoIn(l, sym, raw) ==
    IF raw = 0 THEN 0
    ELSE IF l.tokenCount > 0 /\ sym >= l.tokenCount /\ l.stateCount > 0 /\ l.initialState > 0 THEN raw
    ELSE StateOf(ActionsAtIndex(l, raw))
LookupGoto(l, state, sym) == GotoIn(l, sym, LookupActionIndex(l, state, sym))
=============================================================================
