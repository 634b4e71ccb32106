# TLA+ specifications of treesitter-sharp (gotreesitter)

gotreesitter is a tree-sitter runtime in Go: it loads parse tables, parses
sources with a GLR parser, keeps syntax trees up to date while the source is
edited, and runs queries, highlighters and taggers on them. This directory
models its core in TLA+, checks the models with TLC and proves the main
invariants with TLAPS. `PROJECT.json` holds the index: components, runs,
mutants, the source lines behind every definition, hazards, findings, theorems.

To repeat a run: `tlc -workers 2 -config <cfg> <MC module>`; a proof:
`tlapm <module>Proofs.tla`.

## Inventory

**Node arenas and trees** (`arena.go`, `tree.go`).
State: reference-counted slabs of nodes (`nodeArena.refs`, `used`), two pools by
class (full, incremental), and per tree its own arena, the borrowed arenas, the
root, the released flag. Operations: acquire, allocate, retain, release, reset,
put; `Tree.Release`. Parses run concurrently, also of one old tree; an
incremental parse shares nodes with the old tree and has to keep every arena
those nodes live in, and may give a root it shares new children. Hard: releases
racing with parses, the last reference, chains of incremental parses, early returns,
writing to shared nodes. Correct when no readable tree loses
memory, counts equal holders, pooled arenas are clean, nothing leaks.

**GLR parser** (`parser.go`, `glr.go`, tables in `language.go`).
State: parallel stacks with a score each, one shared lookahead, counters for the
limits. A round merges stacks by top state, caps them, fetches a token unless
one is kept, lets every stack act on it (shift, reduce, fork, recover, die, wrap
an error), then accepts, keeps the token or moves on. Hard: stacks out of step
with the shared token, forks, ties, the limits, recovery, the heuristic against
endless reductions. Correct when stacks are paths through the table, tokens are
taken once and in order, work is bounded, and the result is what the grammar says.

**Incremental parsing** (`Tree.Edit` in `tree.go`, `incremental.go`,
`ParseIncremental`).
State: spans and dirty flags of the old tree, its recorded edits, the reuse
cursor. Edits adjust the tree in place; the parser asks the cursor at each token
for old subtrees that start there. Hard: several edits before a parse, edits at
boundaries, flags that are stale, a subtree that fits the state and not the text
around it, comments, which belong to a node without being in its span. Correct when the result is the tree of a parse from nothing.

**Embedded grammar cache** (`grammars/embedded_loader.go`).
State: a map of entries, an LRU list, limit, idle TTL, sweep interval, a janitor
goroutine. Operations: load (lookup, decode outside the mutex, record), set limit,
TTL, interval, unload, purge, the janitor's sweep. Hard: the three critical
sections of a load interleave with everything else; failing decodes; restarts of
the janitor. Correct when map and list agree, the limit holds, idle entries go.

**DFA lexer, token source, scanner VM** (`lexer.go`, the token source in
`parser.go`, `external*.go`).
State: the lexer's place (byte, row, column), the scanner's payload, the buffer of
expected externals, the VM's program counter, state and payload slot. Operations:
`Next(state)`, `SkipToByte`, `Close`. A token comes from the external scanner if one
may come, else from the DFA (longest match, gaps, transitions at the end, keyword
promotion), else it is made up by name without moving the lexer. Hard: states and
skips in any order, rows and columns counted in five places, the VM's step limit, a
buffer kept from call to call. Correct when tokens are the longest, positions are
those of the text, tokens advance, and no external token comes unasked.

**Hand-ported external scanners** (`grammars/*_scanner.go`, 112 files).
Each keeps its own state (indents, open strings, tags, heredocs, counts) and works
through the same `ExternalLexer`. Operations: `Create`, `Scan`, `Serialize`,
`Deserialize`. Hard: a scan that fails keeps what it has done to the state; numbers are
saved in bytes. Correct when that state is what the tokens made so far say, no token
comes unasked, and a restored state is the one saved.

**Grammar extraction and compaction** (`cmd/ts2go`, `grammars/language_compact.go`).
A generated parser in C is read into lexer states (conditions become ranges of runes)
and parse tables (a dense and a small one, actions by index); rows and transitions that
are equal are shared, when tables are written and again when they are loaded. State: the
intern pools. Hard: boundaries of ranges, the end of the text, hash buckets, the limit of
a pool. Correct when the tables do what the C code does.

**Hand-written token sources** (`grammars/*_lexer.go`, eleven languages).
State: a cursor, pending tokens (a string is returned in pieces), flags (inside a
tag, a directive, a semicolon that is due), done. Operations: `Next`, `SkipToByte`
behind a reused node. Hard: what a skip keeps and what it forgets. Correct when a
skip leaves the tokens that reading on would have returned.

**Queries** (`query.go`).
State: the compiled patterns (steps with depth, quantifier, anchors, alternations,
fields, predicates), an index of patterns by root symbol, the cursor's stack of
nodes, the captures of the match it is in. Operations: compile, `NextMatch`,
`NextCapture`. Hard: backtracking must undo captures, the index may leave out no
pattern, the two calls mix. Correct when the matches are those the patterns mean.

**Highlighter, tagger** (`highlight.go`, `tagger.go`): the matches of a query, turned
into ranges that do not overlap, and into tags; each with an incremental call.
Correct when every byte shows the innermost capture.

**Walk, bound trees** (`walk.go`, `bound_tree.go`): traversal with skip and stop.

**Around the core**: blob sources, registry, language sets, the reports in `cmd/` and
`cgo_harness/` (comparison with the C library).

Interaction: the cache hands tables to parsers; a parser draws tokens from a token
source (the runtime's own or a language's) and nodes from an arena, reads the old
tree through the cursor, and tells the source to skip behind what it reuses; trees
hold arenas; queries, highlighters and taggers read trees and pass the old tree on.
`PROJECT.json` lists, at its line, what is hard to test in each.

## Modules

| module | models | how state and actions correspond |
|---|---|---|
| `ArenaLifetime` | what the arenas promise, without counters | `Build`, `LetGo`, `Reclaim`: memory is recycled only when no readable tree reaches it, but on loan |
| `ArenaTrees` | arenas, pools, trees, the arena side of a parse | `refs`, `place` of each arena; `own`, `borrowed`, `subs` of each tree, and `lent`, what it reaches without holding it. One action per step another goroutine can see: each Retain and each Release of an arena is its own action, so is reset, put, and the collector dropping a pooled arena |
| `GLRParser` | `parseInternal` and below | the loop's local variables; one action per branch of the loop for one stack |
| `ExampleLanguages` | tables of the languages in `parser_test.go`, `glr_test.go`, and minimal ones for conflicts, recovery, forks, reuse | data |
| `IncrementalParse` | `Tree.Edit`, the cursor, an incremental parse with one stack, extras, lex modes, a scanner with a state | the tree is a pre-order sequence of nodes; `Edit` is one action, a parse is one action whose rounds are the function `Run`; a node that is in the tree twice has one `id` |
| `GrammarCache` | the cache, the janitor, `container/list` pointer by pointer | one action per critical section; callers, janitor and clock interleave |
| `SourceText` | bytes, characters of one and two bytes, places | shared by all that read text |
| `Lexer` | `Lexer.Next`, `scan`: the DFA walk | functions of a place |
| `ExternalVM` | the scanner VM and its validation | one run is a function of steps left |
| `ScannerKit` | what ported scanners are written with: reading, skipping, marking, emitting | functions of a lexer that carries its text |
| `CommentPorts`, `SignPorts` | scanners without a state: nested comments (`kdl`, `julia`, ...) and literal texts (`gn`, `gleam`, ...); signs that the context decides (`scss`, `awk`, ...), JavaScript's family | one `Scan` per language, a function of lexer, state and expected symbols |
| `StringPorts`, `LayoutPorts`, `LiteralPorts` | raw strings, quoted strings and heredocs; indentation; counted quotes and what is open around them (HCL, C#), Odin's numbers | the same; the state is that of the Go struct |
| `MarkupPorts`, `DocumentPorts` | element trees (`blade`, `vue`, `angular`, `svelte`, `astro`, `templ`); documents by lines (`org`, `cobol`, `dockerfile`, ...) | the same |
| `PythonScanner` | `grammars/python_scanner.go`, with what Starlark and Mojo change | `Scan` as a function of payload, place and expected symbols |
| `AttachedScanners` | `zzz_scanner_attachments.go`: which language has which scanner | by name |
| `SavedStates` | `Serialize`, `Deserialize` of each scanner that keeps a state | functions from states to bytes and back |
| `LexTables` | `ts_lex` in C read into lexer states, merged and shared (`MCTokens` has lexers to try it on) | conditions are token sequences, as the extractor sees them |
| `ParseTables` | parse tables in C read into Go's, rows shared, looked up (`MCGLRParser` sends the example languages through that) | functions of a source's arrays |
| `TokenSource` | `dfaTokenSource` and the external lexer | `SetState`, `Next`, `Close` are actions; `SkipToByte` and `SkipToByteWithPoint` are where `Next` may have been moved to; the payload and the tokens returned are variables |
| `BridgeReaders` | the cursor, runs and pieces of strings that the sources share; what each source reads at a place: JSON, TOML, YAML, HTML; C, Java, Lua, Authzed, the generic one, Go (`go/scanner` external) | functions of a place, one operator per language and branch; `...At` is what is found at a place, nothing if the loop of `Next` goes on |
| `TokenBridges` | a parser driving a source | `TakeToken`, `Skip`; `full` is what reading without skips returns, `incident` what a skip met |
| `QueryPatterns` | compilation of a query's structure into steps, the index by root symbol; the reference: what a pattern means at a node (knows no steps) | functions |
| `QueryMatching` | `matchSteps` and below, predicates | recursive operators that return what is left after backtracking |
| `QueryCursor` | the cursor's walk, `NextMatch`, `NextCapture` | `worklist`, `current`, `candidates` are the cursor's fields; one action per call, per step of its loop, and per way it returns; candidates and matches are parameters |
| `Highlighter` | `highlightTree`, `resolveOverlaps` on the cursor's matches | ranges, the sorted events, the sweep |
| `ArenaTreesProofs`, `GLRParserProofs`, `GrammarCacheProofs`, `IncrementalParseProofs`, `TokenSourceProofs`, `QueryProofs`, `BridgeProofs` | proofs, each of the module it is named for (`BridgeProofs` of `BridgeReaders` and `TokenBridges`, `TokenSourceProofs` of `TokenSource` and, inside it, `PythonScanner`, `QueryProofs` of `QueryCursor` and `Highlighter`) | |
| `NumberLemmas` | lemmas on numbers that these share: least and greatest elements, repeated steps, what a recursive function returns if something gets less with each call (`RecursionReturns`) | |
| `MC*` | instances for TLC: data, and in `MCGLRParser`, `MCQueries`, `MCTokens` the properties that need a reference of the instance (in `MCGLRParser` which words a grammar derives, with which precedence: it knows no tables) | |

Composition: `GLRParser` and `IncrementalParse` work on the languages of
`ExampleLanguages`, the former on the tables that `ParseTables` makes of them;
`TokenSource` runs `Lexer`, `ExternalVM` and the attached scanners; the C
lexers of `MCTokens` are languages of `TokenSource` like any other;
`TokenBridges` runs the eleven sources; `Highlighter` extends `QueryCursor`, and `MCQueries`
gives the cursor the candidates of `QueryPatterns` and the matches of `QueryMatching`; `ArenaTrees` implements `ArenaLifetime`.

Abstractions. An arena's content is the set of parses with nodes in it. A GLR node
is its symbol, flags and the positions of its tokens; children, fields and aliases
are left out. In `IncrementalParse` a character is a byte and the text one line, so
rows and columns follow the bytes; a parse is atomic because the code holds
`reuseMu` and reads nothing that another goroutine may write legally meanwhile. Time
in the cache is counted in ticks. In texts a byte is its class: one model value for
all letters without a meaning of their own, two bytes for a character outside ASCII.
The ported scanners' examples spell letters out where a scanner compares them.
Of a query the model has the structure and not the characters, of a generated parser the
C tokens and arrays and not the file they are found in. Names are the code's but for
`iterations` in `GLRParser` (the code's `iter`). Definitions marked
*faulty variant* (and the operators `PROJECT.json` names under "mutants") are not
part of a specification: each is a plausible bug that some property has to notice.

History variables record what the code relies on without looking: `incidents` in
`GLRParser` and `GrammarCache`, `met` in `IncrementalParse`, `incident` in
`TokenBridges`, `lent` in `ArenaTrees`. A property that holds only without such an event
names it.

## Runs

| run | shows | bounds, and why they are enough |
|---|---|---|
| `arena_trees` | no use after recycling, exact counts, clean pool, refinement of `ArenaLifetime`; every released arena leaves use (liveness) | 3 parses, 1 full and 2 incremental arenas: a full parse, an incremental one and one based on that, which needs the borrowed arenas of its old tree; an arena is reused while others are held |
| `arena_loans` | finding: a live tree reads an arena that a release has reset | 2 parses, 2 arenas |
| `arena_parent` | finding: `Parent` of a live tree's node points into another tree | 2 parses |
| `glr_parser` | types, stacks follow the tables, tokens in order, bounded allocation, results against what the grammars derive (`MCGLRParser`) | all inputs up to 5 tokens in 12 languages; limits scaled to 30 rounds, depth 8, 40 nodes, 2 stacks, 3 repeated reductions, so that each limit is met |
| `incremental_parse` | clean nodes keep their text; reuse is sound but for nine named causes | sources of up to three phrases in 7 languages, one with comments, one with lex modes and one with a scanner; every replacement by up to two characters; 2 edits with parses between and after, so that an edit meets what an earlier one left |
| `incremental_fresh` | finding: without the exceptions the trees differ | as above |
| `grammar_cache` | map, list and entries agree; the limit holds; the janitor follows the TTL; idle entries go (liveness); no deadlock | 2 callers, 2 grammars (one fails to decode), 2 entries, so that one is replaced or purged while a caller holds it, 3 configuration changes, ticks up to 2 |
| `grammar_cache_limit` | finding: purge during a load, then a limit of 0 evicts nothing | 3 entries, 2 configuration changes |
| `queries` | matches are meant, none is missed, order, mix of the two calls, innermost highlights | trees of up to three children of six kinds, with one level below; callers that ask for matches, and for some queries for captures too, in any order; patterns with every quantifier on one child, another child behind it, anchors anywhere; alternations, fields, predicates; queries of several patterns for the index; a document without its source; documents in which a child ends behind its parent, straddles its neighbour or starts behind its end; 5 ranges |
| `tokens` | longest tokens, tokens as the C code finds them, positions, progress, expected externals, the scanners' stacks against the tokens made, saved states | a DFA with 16 states, tokens made up by name, a VM program, Python's blocks and strings, 81 languages with their ported scanner, C lexers; all texts up to a few bytes and picked longer ones that reach every symbol of every scanner; 1 to 5 calls (`Next` in any state, `SkipToByte` to any place, for most ported scanners none). Scaled limits, so that they are met: a byte holds 4 numbers (`ByteSize`, 256), a C++ delimiter 2 runes (16), Dockerfile 2 heredocs (10), the last rune is 3 (0x10FFFF), the transition pool takes 1 hash (20,000); a caller's buffer has 64 bytes |
| `python_marks` | finding: a marked token end is moved by skipping | Python's blocks |
| `bridges` | skipping agrees with reading but for named incidents, points follow bytes, no byte comes twice but where named | 11 languages: all texts up to 3 bytes (HTML 4, generic without string pieces 2) over 4 to 8 bytes of that language, and longer texts for what takes more; any sequence of tokens and skips, but none after the first incident |

**Order of the parses in `arena_trees`.** Trees are interchangeable, and the cfg follows
only behaviours that start their parses in the order of their names (`NamedInOrder`):
any other is one of these with its trees renamed, and no property tells trees apart. The
steps left out are starts of parses, on which there is no fairness, so nothing that the
liveness property relies on is cut off.

**Loans.** `buildResult` folds extras beside the root into it in place. A root reused
from the old tree is a node of that tree too, and of those it came from: they reach the
new slice of children, and the extras, without a reference on their arena. `ReturnTree`
adds these to `lent` of the old tree and, as the model does not know which node of a
parse the root is, of any of the other trees that reach nodes of the same parse.
`NoUseAfterRecycle` and `ArenaLifetime` except what is on loan, `DependentTreesKeepArenas`
does not, and is violated (`arena_loans`).

**Exceptions of `ReuseIsSound`**, each but the last of which alone makes the trees differ: the
last token of a reused node now runs on (`longerToken`); a dirty flag is cleared for
a node whose descendants were changed (`notUndone`); the token behind a reused
phrase no longer calls for its reduction (`otherLookahead`); the state in which the
node is reused lexes it otherwise (`otherMode`); the scanner, which is not resumed
behind a reused subtree (`incremental.go:212`; `external.go:3-4` describes the
serialized state that would allow it), is in another state than reading the subtree
leaves it in (`otherScanner`); the old root's symbol is forced on the new root
(`otherRoot`). Three are about extras, here comments. Those behind the last child of a
reduction become children of the parent, whose span ends in front of them
(`strayExtra`): an edit that passes the parent by passes them by, and where the parent is
reused they are read again behind it. A root into which extras were folded is
reused with them (`rootExtra`). Where the root has not the old root's symbol, the node
with the extras folded in is wrapped together with the same extras (`sharedNode`, which
comes with `otherRoot`): they are in the tree twice and an edit moves them twice. A tenth event, `cutStart`, concerns
the dirty marks only: an edit leaves the start of a node whose beginning it removes, so a
second edit can miss what is below it. `CleanNodesKeepTheirText` excepts `cutStart`,
`strayExtra` and `sharedNode`, `TypeOK`'s bound on the ends of nodes the last two. Parses that reduce for ever until a
limit stops them are left to `GLRParser`.

**Exceptions of `ExternalsAreExpected`.** A dedent of Python's scanner, and `Unasked`:
fifteen ported scanners make a token without looking whether it may come, as they decide
by their state alone, or look at another symbol's place (C# asks for any of the three
beginnings of an interpolated string and makes the one it finds).

**Exceptions of `RestoresUndo`.** `IsNarrow` says which states fit: a margin or a count
beyond a byte is cut (two bytes for Python's margins), and of Org's emptied stack of lists
nothing is kept. `templ` and `disassembly` save nothing (`Kept`). The property speaks of
any state saved at one call and restored into the payload that the next one leaves.

**Exceptions of `SkippingIsReading`.** A reused node ends behind the token just
taken, or behind a later one that is not inside a string returned in pieces.
*In split*: where `SkipToByte` clears the pending pieces (JSON, C, Java, Lua,
Authzed, generic, YAML), reusing a leaf inside a string leaves the rest of it to be
read as code. *Stale tokens*: TOML keeps the pieces, so content and closing quote
come again behind the reused node (so may the line's end that Go's scanner holds
behind a comment), where `parser.go:62-63` asks for the "first token
at or after" the place. *Flags*: HTML's tag, C's directive and Go's due semicolon
are reset or left as they were. *In token*: Go's scanner has read on to the end of a
literal or comment whose text is shorter where a "\r" is stripped, and a skip to the end
of that text starts within it. *End marker*: YAML, TOML and Go lose their last
marker when the reused node ends with the text (the parser makes an end of file of
its own, `incremental.go:198-209`). `PointsFollowBytes` excepts the column at the
end of a YAML scalar, which counts bytes of the trimmed text; `TokensAdvance`
excepts stale tokens, Go's unterminated string, whose closing token is its
last byte, and the end of a line within a Go comment: where a semicolon is due,
`go/scanner` returns a block comment first and then that semicolon, at the first line's
end in the comment, and `go_lexer.go:256-284` makes it a token that lies within the
comment returned before, where `lexer_properties_test.go:89-109` asks for tokens that do
not overlap. After a skip in between this semicolon is lost or comes late, at the target;
which of the two depends on whether `Scanner.Init` forgets what the scanner holds, and the
model allows both (`LateLineEnd`).

**Exceptions of `NothingIsMissed`.** The predicates judge the first way in which a
pattern's steps match, another is not tried (`query.go:430`); a field stands for the
first child that has it (`tree.go:155`); without a source the code fails the predicates on
text, and misses their matches (`query.go:670-680`), where `README.md:106` says that a nil
source disables them. The reference meaning follows the README; `query_test.go:1967-1970`
expects what the code does.

**Exception of `InnermostIsShown`.** Nodes need not nest: an extra behind a node's last
child is its child and outside its span, and edits cut nodes. What a byte shows is no wider
than any range it nests with and has started after any it straddles. A captured node
that starts behind its end is excepted, its range would begin when it is over.

Deadlock is checked in `glr_parser`, `grammar_cache`, `queries` and `tokens`.
`CHECK_DEADLOCK FALSE` is set where the system may stop: when all parses have been
made and released (arenas), when no edit is left (incremental), and when a text has
been read (bridges).

Fairness. `arena_trees` assumes only that a goroutine inside `Tree.Release` or
`nodeArena.Release` goes on (the scheduler's promise); nobody has to parse, to
release a tree or to collect a pool. `grammar_cache` assumes that time passes
(`Tick`) and that the janitor runs when its ticker has fired (`JanitorSweep`: a
goroutine blocked on a ticker and on a mutex that is free again); no caller has to
do anything. All other runs assume nothing.

## Proofs

All theorems hold for every value of the constants under the named assumptions of
the modules, which TLC evaluates in the runs: finitely many trees, entries, blobs; nil
values outside the sets; positive limits; a TTL below `MaxIdle` (the bound on the ages
that are told apart); tables that are well formed (`IsLanguage`, `IsTable`: entries are
actions, no rule is empty, the end of the text is never shifted); texts that are byte
sequences.

`ArenaTreesProofs`. `NoUseAfterRecycle` is not inductive: that an arena in use
survives a step depends on the counts being those of the holders. The invariant
`IInv` adds `RefsExact` (a count is the number of holders), `InUseIffHeld`, `Shape`
(what each status says of a tree's variables), `OwnArenaIsPrivate` (nobody else
holds a running parse's arena), `StoredAtHome`, `OldTreeOutlivesParse` (the caller
keeps the old tree during the parse), and, decisive, `NodesAreStored`: every node a
tree reaches is stored in an arena the tree *relies on*, which during a parse
includes the arenas of the old tree that it has not retained yet. What it has on loan is
kept apart and not claimed to be stored. Lemmas on the
cardinality of the holders (`GainKeepsCount`, `DropKeepsCount`) carry the counts.
`Refinement` maps `reach` and `lent` to those of readable trees; each step is a `Build`,
`LetGo`, `Reclaim` or a stutter, and folding extras into a shared root a `Build` that lends
to other trees.

`GLRParserProofs`. `StacksFollowTables` and `TokensInOrder` rest on `IInv`:
`RoundShape` relates the loop's indices to its phase, `AllSound` says of every stack
(also of the half-built merge result) that it is a path through the table and holds
no token beyond the current one, `AllFresh` that while the current token has not
been consumed in this round no stack holds it. `ReduceSound`, `RecoverSound` and
`PushPath` are the lemmas on stacks; every step of the loop is built from them.
`NodesAreBounded` has an invariant of its own, `Counted`: the loop looks at the
limit only when it starts a round, so what the round has added is counted along: for
each stack it has passed at most one node per alternative (`MaxForks`).
Induction over lengths goes through least elements of sets of numbers.

`GrammarCacheProofs`. The list is proved as it is written, pointer by pointer.
`Lru` says that there are positions: a numbering of the recorded entries along which
`next` and `prev` go up and down by one between the two sides of the root, and idle
times grow. `UnlinkLru` and `LinkLru` are what taking an element out and putting one
in front do to it; removing, touching and recording an entry are made of them. The loops
that evict, sweep and purge are recursive functions in the model; what is proved of them
is that they never leave the set of stores that are `Sound` (`Inv1`, always) and `Kept`
(mirror and order, while `incidents` is empty), and that the evicting loop ends because
each turn shortens the list. `incidents` says that a use was
recorded of an entry that had been displaced or purged during its load; with it
the list is no longer a ring, which is the finding of `grammar_cache_limit`.
`TypeOK` and `JanitorFollowsTTL` hold without that condition.

`IncrementalParseProofs`. `CleanNodesKeepTheirText` is not inductive: which nodes an
edit leaves clean depends on the spans of the nodes above them, since `editNode`
does not descend behind a node it has only moved. `IInv` adds that the tree is a
`Forest` (sizes nest); as long as no extras are astray (`ExtrasAstray`: outside their
parents' spans, or in the tree twice), that nodes end within those above them and within
the text (`Snug`) and that each is there once (`Distinct`); and, as long as no edit has cut
off a node's start (`cutStart`) either, `Upright` (nodes also begin within those above
them). `EditedGood`: an edit keeps these. Its walk visits the nodes in pre-order, one that is
in the tree twice twice; where each is there once, the walk does to a node what its place
asks for (`VisitsMove`), and the proof goes by least failing node. `EditedFaithful`:
a clean node's bytes move with it. For a parse, the rounds are the
function `Run`; `RunKeeps` is the invariant of its loop: the trees on the stack follow
one another in the text (`StackOK`) and none ends behind the token or the place where
the next one is read (`OnToken`, `InFront`), whether it was made now or taken over
(`TakeOverOK`). `FromIs` says where a reduction's children begin when extras are not counted, `FoldedGood`
what extras folded into the root make of it; `ResultGood` and
`SettleGood` take the last stack to the tree that is returned. That reuse finds
the *same* tree (`ReuseIsSound`) compares with a second parse and stays with TLC.

`QueryProofs`, the cursor. That matches come in order needs to know what is still to come: the
worklist holds subtrees that lie one behind the other in the document and that are exactly
what is left of it (`Tiles`; the first node that the cursor has not visited is `Upcoming`).
Matches found are then those of nodes in front of it and, at the current node, of the
candidates tried so far (`FoundBelow`), and they are all of these (`FoundAll`): at
the end, every candidate has been tried at every node (`WalkIsComplete`). `Buffer` relates
the captures that are pending to the last match and to the last capture handed out. Assumed of the
parameters, and evaluated by TLC for the instance of `queries`: documents are trees numbered
in preorder (`IsTree`), the index lists patterns in the query's order (`CandidatesInOrder`),
and a match captures nodes of the document under names that are not empty (`CapturesAreNodes`).

`QueryProofs`, the highlighter. Two halves. The sweep, for any ranges in the order of their starts
(`Sorted`): the events are sorted (`EventsInOrder`; a place in the order is how many events
come before, and by counting every place is taken, `RanksAreUnique`); between two events
the ranges begun and not ended are those that cover a byte (`ActiveCovers`); the stack
rises and has all of these, so popping what is over leaves the last of them on top
(`StackOK`, `PopTakesTheRest`); hence what is shown so far is, at every byte, the last range
that covers it, once (`ShownUpTo`, `ResolveShowsTheLast`). The captures: their ranges are
those of nodes, which need not nest; sorted by start, and the wider first, the last range that
covers a byte is no wider than any it nests with and starts behind any it straddles
(`SortedRangesAre`, `LastIsInnermost`), whichever way the unstable sort leaves equal ones.

`TokenSourceProofs`. `PositionsAgree` and `TokensGoOn` rest on `IInv`: the lexer and all tokens
are at places that the text has (`Right`: byte, row and column belong together, no rune
is split), each answer is a token of the text behind where it was asked for
(`IsAnswer`), the lexer has not gone back in front of the last token unless that was made
up (`Ahead`), the scanner's state is one and of its own (`Kept`). Below that are the lemmas
on the five ways to count: a rune further is the next place (`RuneIsRight`), whoever takes it: the
DFA's walk (`ScanIs`), gaps (`PastGapIs`), the tokens made up by name (`SyntheticIs`), a reused
subtree's end (`NodeEndsAreRight`, `SkippedIs`). Loops are recursive functions; that they return what
is claimed goes by what is left of the text (`RecursionReturns`). The theorems
have one hypothesis, `ScannersUseTheirLexer`: a scan answers with a place behind the one where its lexer
was put, and with a state of its own. The code justifies it: the fields of
`ExternalLexer` are unexported, so a scanner can move its lexer only by `Advance` and `MarkEnd`
(`external_lexer.go`). It is not only assumed: it is proved of every program of the VM that the
constructor lets through (`ProgramsUseTheirLexer`), by an invariant of the machine, and of
Python's scanner; for the other ported scanners `tokens` checks what follows from it.

`TokenSourceProofs`, Python's scanner. Every set of lexers that `Advance`, `MarkEnd` and `SetResultSymbol` do not leave
(`Closed`) is one that a scan does not leave, so one proof serves both for types and for where a
token begins and ends (`Forward`, `ScanIsForward`). Each of the scanner's loops (string content,
layout, comments, flags) ends, as the text does. `Result` says of each way through `Scan` that it
fails with the stacks as they were or makes a token whose symbol says what it has done to
them (`Nested`): an indent opens a block deeper than the innermost, a dedent closes
the innermost and never the first (its margin 0 is not above any), a string's start and end push and pop.
That `Scan` changes its state before it may still fail is why this is worth
proving; `BlocksNest` then follows by counting tokens (`TokenNests`, `AnswerNests`).
`KnownScannersKeepToTheText` puts programs and Python together and has no hypothesis on scans.

`BridgeProofs`, for eleven languages and every text. A cursor is at a place that reading from the
start comes to (`Reach`; in Go, whose cursor may stand within a rune, anywhere in the text), and what a
call makes is `Fine`: tokens whose rows and columns are those of their bytes (`Fits`), one behind
the other between where the cursor was and where it is (`Laid`). There is a lemma per source
(`JsonIs`, ..., `GoReadIs`), made of lemmas on what they share: runs go on (`GoesOn`), the pieces of
a string follow each other whatever an escape is (`BodyIs`), the loop of `Next` ends (`FirstReadIs`). The invariant
`BridgesKeep` adds that what is pending lies behind the token the parser holds: that
is not so behind a skip of TOML's source, which keeps what is pending, nor of Go's scanner, which may,
and the theorem says so with the incident `stale tokens`. Go's source takes tokens until one begins at the target: it
comes to one because each takes from what is left, pending or not (`GoNextFalls`). Four exceptions are
named in the properties: the column at which a YAML scalar ends, the closing quote of a Go string
that has none, the line's end that is pending behind a Go comment (`LineEndInComment`), stale tokens. `TokensAlwaysAdvance` has one hypothesis, `NodesHoldTheirToken`: a
reused node does not end within the token it begins with. It is about the nodes and not about the
sources, a parser made them of such tokens; `bridges` checks it, as part of `TypeOK`.

**Only model-checked, and why.** Liveness (`ReleasedArenasAreReclaimed`,
`IdleEntriesAreEvicted`) and deadlock: out of the prover's reach.
What the results of a parse or a query are (`SentencesParseCleanly`, `OnlySentencesParseCleanly`,
`ReuseIsSound`, `MatchesAreMeant`, `NothingIsMissed`) and which tokens there are (`TokensAreLongest`,
`TokensFollowTheirSource`, `BracketsAreRead`, `StringsEndAsTheyBegin`, `SkippingIsReading`):
each compares two computations over data of any depth, the code's and
a reference, and induction over that data would need the library's theorems with operator
parameters. `ExternalsAreExpected` has exceptions by language, and `RestoresUndo` is about bytes;
both range over scanners modelled with RECURSIVE operators, as are `QueryMatching`, `LexTables` and
`SavedStates`, and no module that reaches those can hold a theorem.
The ported scanners other than Python's are in that group too.
Of `TokenBridges`' `TypeOK`, that cursor and tokens stay in the text is proved (`SourcesStayInText`); the rest
is about `full`, the reading from the start, which is such a computation too.


## Findings

Five runs must fail, each on one property; `PROJECT.json` quotes the lines.
- `arena_parent`: node parents are overwritten across live trees.
- `arena_loans`: extras folded into a root that the old tree shares put its children
  into the new tree's arena; releasing the new tree recycles them under the old one.
- `incremental_fresh`: incremental parses can return stale trees.
- `grammar_cache_limit`: purging the cache during a load unbalances its list, up to
  an eviction loop that never ends.
- `python_marks`: `Advance` with skip moves an end that `MarkEnd` has set; a newline
  token swallows the next line's indentation, and blocks close late.

Further behaviour met while modelling, which the properties name or the models
follow, without a run of its own:
- GLR: parallel stacks share one lookahead and a stack can take it twice; more than
  ten equal reductions in a row count as a loop, also legitimate ones.
- Tokens: made-up tokens never move the lexer (`parser.go:299`, against 311-313 for
  the others); a "\r" alone ends a line only where tokens are made up; a VM program cut off by the step limit
  may leave the state of a token it has not emitted; the first external symbol that
  is valid and has a known name decides, even if it fails; Python's scanner makes a
  dedent where none was asked for, and the end of a raw string swallows escapes that
  are all of its content; the runtime never calls `Serialize` or `Deserialize`.
- Ported scanners: a token whose scanner never marks its end is empty
  (`external_lexer.go:90`; nine scanners never do, some others not always); Nickel
  leaves the number of a beginning that came to nothing on its stack and takes one off
  for an end that came to nothing; COBOL's line comments go round for ever at the end of
  the text (a `Stopped` scan); Beancount saves a number of margins that is always 0; a
  hole of C# without braces ends where a byte has counted around.
- Extraction: entries `[N]` of the small table's map that are not written with
  `SMALL_STATE` are taken for it once N reaches the number of large states
  (`extract.go:979`).
- Incremental: a comment behind the last child of a phrase is outside its span and is
  read again when the phrase is reused, so the tree has it twice.
- Token sources: a semicolon due within a Go block comment is a token inside the comment's
  (against `lexer_properties_test.go:89-109`); JSON drops "1." altogether; escapes in the generic source's
  backtick strings make no token; Lua's `--[[` is a line comment; Authzed reads "&^"
  at the very end as two tokens and ends a string at a line break; lengths from
  `go/scanner` are short where it strips a "\r".
- Queries: in a nested alternation a branch like `[["a"] (c)]` becomes a wildcard;
  negated fields are ignored on wildcards and on childless branches; a predicate in
  a repeated alternation judges its first repetition; siblings in a group become
  constraints on children; a quantifier on the root, and anchors and fields inside
  alternations, are ignored; without a source text predicates fail
  (`query.go:670-680`, against `README.md:106`); overlapping highlights of equal span
  are ordered by an unstable sort.

## Not modelled

- The scanners of the larger grammars (Bash, Ruby, PHP, Markdown, Haskell, Djot, RST,
  Crystal, VHDL and some twenty more, 29,700 of the 67,608 lines): of the same kinds, over
  the same external lexer.
- Of extraction: finding the arrays in a C file, the tables of names, fields, aliases and
  lex modes; the reports in `cmd/`, `cgo_harness/`.
- Blob input, registry, language sets: data at start-up. Interning of names, and the
  mutex around the intern pools, which each load holds for a whole lookup.
- The growth of an arena's slabs (`allocNodeSlice`): an arena's content is a set of parses.
- Walk and bound trees (planned); the tagger, which turns matches into records one
  by one.
- The text of a query (characters, messages, symbols by name), regular expressions,
  `#offset!`; field ids and aliases of nodes; rows and columns in `IncrementalParse`.
- Of Python's scanner: "`" as a delimiter, which nothing tells from the other two; the prefix
  `u`, which is passed over; a form feed in an indentation, which is taken like a "\r".
- Of the token sources: which of several symbols a word, number or operator gets,
  the tables that find symbols by name, `Reset` of Go's source.

## Plan

Done: arenas, GLR parser, incremental parsing, cache; queries, highlighter, lexer, token
sources, the VM; extraction and compaction of tables; scanners of 81 languages and their
saved states. Next:
1. Proof: what the parse of a language's sentence returns, for one stack.
2. `Walk`; the tagger; highlighter and tagger passing trees on, over `ArenaTrees`.
3. The larger scanners: heredocs of Bash and Ruby, blocks of Markdown, layout of Haskell.
