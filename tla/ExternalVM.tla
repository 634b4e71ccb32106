------------------------------- MODULE ExternalVM -------------------------------
(***************************************************************************)
(* External scanners: the lexer they drive (external_lexer.go) and the     *)
(* machine that runs one given as a program (external_vm.go).  The payload *)
(* a scanner keeps between calls is one number, its state.                 *)
(***************************************************************************)
EXTENDS Lexer

EndOfText == "NUL"   \* Lookahead at the end, as at a NUL byte

NewExternalLexer(place) ==
    [begin |-> place, at |-> place, end |-> place, result |-> {}]

Lookahead(text, lexer) ==
    IF AtEnd(text, lexer.at.pos) THEN EndOfText ELSE DecodeRune(text, lexer.at.pos).rune

\* Skipping moves the token's begin, and its end too.
AdvancedTo(lexer, past, skip) ==
    IF skip THEN [lexer EXCEPT !.at = past, !.begin = past, !.end = past] ELSE [lexer EXCEPT !.at = past]
Advance(text, lexer, skip) ==
    IF AtEnd(text, lexer.at.pos) THEN lexer ELSE AdvancedTo(lexer, OneRune(text, lexer.at), skip)

MarkEnd(lexer)          == [lexer EXCEPT !.end = lexer.at]
SetResultSymbol(lexer, s) == [lexer EXCEPT !.result = {s}]

\* The token a scan has made, in a set of at most one.
ExternalToken(lexer) ==
    {Token(s, lexer.begin, lexer.end) :
        s \in {r \in lexer.result : lexer.end.pos >= lexer.begin.pos}}
-----------------------------------------------------------------------------
(* Programs: sequences of instructions, numbered from 0 in jumps.  An      *)
(* instruction is [op, arg, alt]; alt is where it goes when it fails.      *)

Ops == {"fail", "jump", "requireValid", "requireState", "setState", "ifRune",
        "advance", "markEnd", "emit"}
Tests == {"requireValid", "requireState", "ifRune"}

\* validateExternalVMProgram
IsProgram(program) ==
    LET Targets == 0 .. Len(program.code) - 1
    IN  /\ program.code # << >> /\ program.maxSteps >= 0
        /\ \A i \in DOMAIN program.code :
              LET ins == program.code[i]
              IN  /\ ins.op \in Ops
                  /\ ins.op = "jump" => ins.arg \in Targets
                  /\ ins.op \in Tests => ins.alt \in Targets

DefaultMaxSteps(len) == IF len * 16 < 64 THEN 64 ELSE len * 16
MaxSteps(program) ==
    IF program.maxSteps = 0 THEN DefaultMaxSteps(Len(program.code)) ELSE program.maxSteps

\* ifRune stands for the three tests of the lookahead: arg is a set of runes.
Passes(ins, text, m, valid) ==
    CASE ins.op = "requireValid" -> ins.arg \in valid
      [] ins.op = "requireState" -> m.state = ins.arg
      [] ins.op = "ifRune"       -> Lookahead(text, m.lexer) \in ins.arg

\* A machine: program counter, steps made, scanner state, lexer, outcome.
Execute(ins, text, m, valid) ==
    LET next == [m EXCEPT !.pc = @ + 1, !.steps = @ + 1]
    IN CASE ins.op = "fail"     -> [m EXCEPT !.outcome = "failed"]
         [] ins.op = "jump"     -> [next EXCEPT !.pc = ins.arg]
         [] ins.op \in Tests    -> IF Passes(ins, text, m, valid) THEN next
                                   ELSE [next EXCEPT !.pc = ins.alt]
         [] ins.op = "setState" -> [next EXCEPT !.state = ins.arg]
         [] ins.op = "advance"  -> [next EXCEPT !.lexer = Advance(text, @, ins.arg)]
         [] ins.op = "markEnd"  -> [next EXCEPT !.lexer = MarkEnd(@)]
         [] ins.op = "emit"     -> [m EXCEPT !.lexer = SetResultSymbol(@, ins.arg),
                                             !.outcome = "emitted"]

\* faulty variant: one step more.
RunVMOneMore(program, text, m, valid) ==
    IF m.steps > MaxSteps(program) \/ m.pc >= Len(program.code)
    THEN [m EXCEPT !.outcome = "failed"]
    ELSE Execute(program.code[m.pc + 1], text, m, valid)

\* One round of Scan's loop: the step limit and a counter behind the code
\* both end in failure.
RunVM(program, text, m, valid) ==
    IF m.steps >= MaxSteps(program) \/ m.pc >= Len(program.code)
    THEN [m EXCEPT !.outcome = "failed"]
    ELSE Execute(program.code[m.pc + 1], text, m, valid)

Machine == [pc : Nat, steps : Nat, state : Nat, outcome : STRING,
            lexer : [begin : Place, at : Place, end : Place, result : SUBSET STRING]]

\* Scan: the machine where it stops.  Its state is the scanner's from then on,
\* also when the scan failed.
ScanVM(program, text, lexer, state, valid) ==
    LET Run[m \in Machine] ==
          IF m.outcome # "running" THEN m ELSE Run[RunVM(program, text, m, valid)]
    IN  Run[[pc |-> 0, steps |-> 0, state |-> state, outcome |-> "running",
             lexer |-> lexer]]
=============================================================================
