------------------------------ MODULE SavedStates ------------------------------
(***************************************************************************)
(* Serialize and Deserialize of the external scanners: the bytes that a    *)
(* caller keeps of a scanner's state, and the state they are made into     *)
(* again, in a payload that may hold another state.                        *)
(*                                                                         *)
(* A byte is a number, or the sign, tag, name or token it stands for.      *)
(***************************************************************************)
EXTENDS AttachedScanners
LOCAL INSTANCE FiniteSetsExt
Seqs == INSTANCE SequencesExt

CONSTANT BufferSize   \* The bytes of a caller's buffer
ASSUME BufferAssumption == BufferSize \in Nat

Flag(b)      == <<IF b THEN 1 ELSE 0>>
Fitting(buf) == SubSeq(buf, 1, Min({Len(buf), BufferSize}))
\* Of so many bytes, or nothing.
Whole(buf, size) == IF BufferSize < size THEN << >> ELSE buf
\* A number in so many bytes, the lowest first.
BigEndian(n, size)    == [i \in 1 .. size |-> (n \div ByteSize ^ (size - i)) % ByteSize]   \* faulty variant
LittleEndian(n, size) == [i \in 1 .. size |-> (n \div ByteSize ^ (i - 1)) % ByteSize]
Number(buf, from, size) ==
    Seqs!FoldLeft(LAMBDA n, i : n * ByteSize + buf[from + size - i], 0, [i \in 1 .. size |-> i])
BytesOf(numbers) == [i \in DOMAIN numbers |-> Byte(numbers[i])]
From(buf, i)     == SubSeq(buf, i, Len(buf))
UntilNul(buf)    == IF \E i \in DOMAIN buf : buf[i] = EndOfText
                    THEN SubSeq(buf, 1, Min({i \in DOMAIN buf : buf[i] = EndOfText}) - 1) ELSE buf
-----------------------------------------------------------------------------
(* One or two bytes.                                                       *)

SerializeRawString(s)   == SubSeq(s, 1, Min({Len(s), Max({BufferSize - 3, 0})}))
DeserializeRawString(s, buf) == buf
SerializeHaxe(s)        == Flag(s)
DeserializeHaxe(s, buf) == Len(buf) > 0 /\ buf[1] # 0
SerializeBicep(s)        == <<s>>
DeserializeBicep(s, buf) == IF Len(buf) >= 1 THEN buf[1] ELSE s
SerializeNushell(s)        == Whole(<<s>>, 1)
DeserializeNushell(s, buf) == IF Len(buf) = 1 THEN buf[1] ELSE 0
SerializeLuau(s)        == <<s.ending, s.level>>
DeserializeLuau(s, buf) == [ending |-> IF Len(buf) >= 1 THEN buf[1] ELSE s.ending,
                            level |-> IF Len(buf) >= 2 THEN buf[2] ELSE s.level]
SerializeJsonnet(s)        == Flag(s.inside) \o <<s.ending, 0>>
DeserializeJsonnet(s, buf) ==
    IF buf = << >> THEN s
    ELSE [inside |-> buf[1] # 0, ending |-> IF Len(buf) >= 2 THEN buf[2] ELSE s.ending]

\* These keep nothing.
SerializeTempl(s)              == << >>
DeserializeTempl(s, buf)       == FALSE
SerializeDisassembly(s)        == << >>
DeserializeDisassembly(s, buf) == Disassembly.created
-----------------------------------------------------------------------------
(* Stacks and records.                                                     *)

\* Caddy, nginx, pug, FIRRTL and Agda: margins, the outermost of which is 0.
SerializeIndented(s)        == Fitting(BytesOf(Tail(s)))
DeserializeIndented(s, buf) == <<0>> \o buf

SerializeEarthfile(s)        == Whole(LittleEndian(s.indent, 4) \o Flag(s.ended), 5)
DeserializeEarthfile(s, buf) ==
    IF Len(buf) < 5 THEN Earthfile.created ELSE [indent |-> Number(buf, 1, 4), ended |-> buf[5] # 0]
SerializeJust(s)        == Whole(LittleEndian(s.indent, 4) \o LittleEndian(s.braces, 2) \o Flag(s.ended), 7)
DeserializeJust(s, buf) ==
    IF Len(buf) < 7 THEN Just.created
    ELSE [indent |-> Number(buf, 1, 4), braces |-> Number(buf, 5, 2), ended |-> buf[7] # 0]
SerializeCairo(s)        == Whole(LittleEndian(s.margin, 4) \o <<s.context, s.quotes>>, 6)
DeserializeCairo(s, buf) ==
    IF Len(buf) < 6 THEN Cairo.created ELSE [margin |-> Number(buf, 1, 4), context |-> buf[5], quotes |-> buf[6]]
SerializeCmake(s)        == Whole(LittleEndian(s.level, 4) \o <<s.token>>, 5)
DeserializeCmake(s, buf) ==
    IF Len(buf) < 5 THEN Cmake.created ELSE [level |-> Number(buf, 1, 4), token |-> buf[5]]
SerializeTeal(s)        == Whole(LittleEndian(s.eqs, 4) \o Flag(s.inStr) \o <<s.quote>>, 6)
DeserializeTeal(s, buf) ==
    IF Len(buf) < 6 THEN Teal.created ELSE [eqs |-> Number(buf, 1, 4), inStr |-> buf[5] # 0, quote |-> buf[6]]
SerializeNickel(s) ==
    LET count == Min({Len(s), ByteSize - 1})
    IN  Whole(<<count>> \o SubSeq(s, 1, count), Len(s) + 1)
DeserializeNickel(s, buf) ==
    IF buf = << >> THEN << >> ELSE SubSeq(buf, 2, Min({buf[1] + 1, Len(buf)}))

\* The number of margins is always 0; that of sections counts to a byte.
SerializeBeancount(s) ==
    LET count == Min({Len(s.stars) - 1, ByteSize - 1})
    IN  Fitting(Flag(s.ended) \o <<0, count>> \o BytesOf(Tail(s.stars)))
DeserializeBeancount(s, buf) ==
    LET margins == IF Len(buf) > 1 THEN buf[2] ELSE 0
        place   == 3 + margins
    IN  [ended |-> Len(buf) > 0 /\ buf[1] # 0,
         stars |-> <<0>> \o (IF place > Len(buf) THEN << >>
                             ELSE SubSeq(buf, place + 1, Min({place + buf[place], Len(buf)})))]

SerializeSql(s)        == IF s = << >> \/ Len(s) + 1 > BufferSize THEN << >> ELSE s \o <<EndOfText>>
DeserializeSql(s, buf) == IF Len(buf) > 1 THEN UntilNul(buf) ELSE << >>

SerializeHack(s) ==
    IF Len(s.delimiter) + 3 >= BufferSize THEN << >>
    ELSE Flag(s.isNowdoc) \o Flag(s.didStart) \o Flag(s.didEnd) \o s.delimiter
DeserializeHack(s, buf) ==
    IF buf = << >> THEN Hack.created
    ELSE [isNowdoc |-> buf[1] # 0, didStart |-> buf[2] # 0, didEnd |-> buf[3] # 0, delimiter |-> From(buf, 4)]

\* Two flags, and names that end in NUL up to an empty one.
SerializeDockerfile(s) ==
    LET With(buf, name) ==
            [buf EXCEPT !.open = @ /\ Len(buf.bytes) + Len(name) + 2 <= BufferSize,
                        !.bytes = IF buf.open /\ Len(@) + Len(name) + 2 <= BufferSize
                                  THEN @ \o name \o <<EndOfText>> ELSE @]
    IN  Whole(Fitting(Seqs!FoldLeft(With, [open |-> TRUE, bytes |-> Flag(s.inHeredoc) \o Flag(s.stripping)],
                               s.heredocs).bytes \o <<EndOfText>>), 2)
DeserializeDockerfile(s, buf) ==
    LET Names[i \in 3 .. Len(buf) + 2, n \in 0 .. DockerfileMaxHeredocs] ==
            LET name == UntilNul(From(buf, i))
            IN  IF i > Len(buf) \/ n = DockerfileMaxHeredocs \/ name = << >> THEN << >>
                ELSE <<name>> \o Names[i + Len(name) + 1, n + 1]
    IN  IF Len(buf) < 2 THEN Dockerfile.created
        ELSE [inHeredoc |-> buf[1] # 0, stripping |-> buf[2] # 0, heredocs |-> Names[3, 0]]
-----------------------------------------------------------------------------
(* Blade, Vue, Angular, Svelte and Astro: how many tags there are, twice,  *)
(* the first time those that had a place in the buffer; then the tags, one *)
(* of a name of its own with the name.                                     *)

Letters(name) == [i \in 1 .. Len(name) |-> SubSeq(name, i, i)]
Spelling(letters) == Seqs!FoldLeft(LAMBDA name, letter : name \o letter, "", letters)
TagBytes(tag) ==
    LET size == Min({Len(tag), ByteSize - 1})
    IN  IF TypeOf(tag) # "custom" THEN <<tag>>
        ELSE <<"custom", size>> \o SubSeq(Letters(tag), 1, size)

htmlSerializeTags(tags) ==
    LET count == Min({Len(tags), ByteSize ^ 2 - 1})
        With(buf, tag) ==
            LET fits == buf.open /\ 4 + Len(buf.bytes) + Len(TagBytes(tag)) < BufferSize
            IN  [open |-> fits, tags |-> buf.tags + IF fits THEN 1 ELSE 0,
                 bytes |-> buf.bytes \o IF fits THEN TagBytes(tag) ELSE << >>]
        all   == Seqs!FoldLeft(With, [open |-> TRUE, tags |-> 0, bytes |-> << >>], SubSeq(tags, 1, count))
    IN  Whole(LittleEndian(all.tags, 2) \o LittleEndian(count, 2) \o all.bytes, 4)

htmlDeserializeTags(buf) ==
    LET Tags[i \in 5 .. Len(buf) + ByteSize + 2, n \in 0 .. ByteSize ^ 2] ==
            IF n = 0 \/ i > Len(buf) THEN << >>
            ELSE IF buf[i] # "custom" THEN <<buf[i]>> \o Tags[i + 1, n - 1]
            ELSE IF i = Len(buf) THEN << >>
            ELSE LET end == i + 1 + buf[i + 1]
                 IN  IF end > Len(buf) THEN << >>
                     ELSE <<Spelling(SubSeq(buf, i + 2, end))>> \o Tags[end + 1, n - 1]
    IN  IF Len(buf) < 4 THEN << >> ELSE Tags[5, Number(buf, 1, 2)]

\* Org: margins, the bullets of as many, and the stars of what is left.
SerializeOrg(s) ==
    LET count   == Min({Len(s.items) - 1, ByteSize - 1})
        listed  == SubSeq(s.items, 2, count + 1)
    IN  Fitting(<<Byte(count)>> \o [i \in DOMAIN listed |-> Byte(listed[i].indent)]
                \o [i \in DOMAIN listed |-> listed[i].bullet] \o BytesOf(Tail(s.sections)))
\* A bullet that the buffer had no place for makes an item end.
DeserializeOrg(s, buf) ==
    LET count   == buf[1]
        indents == SubSeq(buf, 2, Min({count + 1, Len(buf)}))
        bullets == SubSeq(buf, count + 2, Min({2 * count + 1, Len(buf)}))
    IN  IF buf = << >> THEN Org.created
        ELSE [items |-> Org.created.items \o
                  [i \in 1 .. Len(bullets) |-> [indent |-> indents[i], bullet |-> bullets[i]]],
              sections |-> <<0>> \o From(buf, 2 * count + 2)]

\* Python: a flag, how many strings are open and they, two bytes a margin.
SerializePython(s) ==
    LET count == Min({Len(s.delimiters), ByteSize - 1})
        Wide(buf, margin) == IF Len(buf) + 1 < BufferSize THEN buf \o LittleEndian(margin, 2) ELSE buf
    IN  Seqs!FoldLeft(Wide, Fitting(Flag(s.inside) \o <<count>> \o SubSeq(s.delimiters, 1, count)),
                      IF BufferSize > 2 THEN Tail(s.indents) ELSE << >>)
DeserializePython(s, buf) ==
    LET end == Min({2 + buf[2], Len(buf)})
    IN  IF Len(buf) < 2 THEN [CreatePython EXCEPT !.inside = Len(buf) = 1 /\ buf[1] # 0]
        ELSE [inside |-> buf[1] # 0, delimiters |-> SubSeq(buf, 3, end),
              indents |-> <<0>> \o [i \in 1 .. (Len(buf) - end) \div 2 |-> Number(buf, end + 2 * i - 1, 2)]]

\* HCL: each context with its kind and its name, not more than 127 of them.
SerializeHcl(s) ==
    LET Frame(context) == <<context.kind, 0, 0, 0>> \o LittleEndian(Len(context.name), 4) \o context.name
        buf == Seqs!FoldLeft(LAMBDA bytes, context : bytes \o Frame(context), LittleEndian(Len(s), 4), s)
    IN  IF Len(s) > 127 \/ \E i \in DOMAIN s : Len(s[i].name) > 127 THEN << >> ELSE Whole(buf, Len(buf))
RECURSIVE HclContexts(_, _)
HclContexts(buf, n) ==
    IF n = 0 \/ Len(buf) < 8 \/ Len(buf) < 8 + Number(buf, 5, 4) THEN << >>
    ELSE LET end == 8 + Number(buf, 5, 4)
         IN  <<[kind |-> buf[1], name |-> SubSeq(buf, 9, end)]>> \o HclContexts(From(buf, end + 1), n - 1)
DeserializeHcl(s, buf) == IF Len(buf) < 4 THEN << >> ELSE HclContexts(From(buf, 5), Number(buf, 1, 4))

\* C#: how many strings are open, and four bytes of each.
SerializeCsharp(s) ==
    LET With(bytes, cur) == bytes \o <<cur.dollars, cur.braces, cur.quotes, cur.kind>>
    IN  Whole(Seqs!FoldLeft(With, <<s.quotes, Byte(Len(s.stack))>>, s.stack), 2 + 4 * Len(s.stack))
DeserializeCsharp(s, buf) ==
    LET Restored(i) == [dollars |-> buf[4 * i - 1], braces |-> buf[4 * i], quotes |-> buf[4 * i + 1], kind |-> buf[4 * i + 2]]
    IN  IF buf = << >> THEN Csharp.created
        ELSE [quotes |-> buf[1], stack |-> [i \in 1 .. Min({buf[2], (Len(buf) - 2) \div 4}) |-> Restored(i)]]

SerializeVM(s)        == Whole(LittleEndian(s, 4), 4)
DeserializeVM(s, buf) == IF Len(buf) < 4 THEN 0 ELSE Number(buf, 1, 4)
-----------------------------------------------------------------------------
Pythonic == {"python", "starlark", "mojo"}
Margined == {"caddy", "nginx", "pug", "firrtl", "agda"}
Tagged   == {"blade", "vue", "angular", "svelte", "astro"}

\* ExternalScanner.Serialize.
Serialize(scanner, s) ==
    CASE scanner.kind = "vm"         -> SerializeVM(s)
      [] scanner.name \in RawStrings -> SerializeRawString(s)
      [] scanner.name \in Margined   -> SerializeIndented(s)
      [] scanner.name \in Tagged     -> htmlSerializeTags(s)
      [] scanner.name = "haxe"     -> SerializeHaxe(s)
      [] scanner.name = "bicep"    -> SerializeBicep(s)
      [] scanner.name = "nushell"  -> SerializeNushell(s)
      [] scanner.name = "luau"     -> SerializeLuau(s)
      [] scanner.name = "jsonnet"  -> SerializeJsonnet(s)
      [] scanner.name = "templ"    -> SerializeTempl(s)
      [] scanner.name = "disassembly"-> SerializeDisassembly(s)
      [] scanner.name = "earthfile"-> SerializeEarthfile(s)
      [] scanner.name = "just"     -> SerializeJust(s)
      [] scanner.name = "cairo"    -> SerializeCairo(s)
      [] scanner.name = "cmake"    -> SerializeCmake(s)
      [] scanner.name = "beancount"-> SerializeBeancount(s)
      [] scanner.name = "sql"      -> SerializeSql(s)
      [] scanner.name = "hack"     -> SerializeHack(s)
      [] scanner.name = "dockerfile"-> SerializeDockerfile(s)
      [] scanner.name = "org"      -> SerializeOrg(s)
      [] scanner.name \in Pythonic -> SerializePython(s)
      [] scanner.name = "teal"     -> SerializeTeal(s)
      [] scanner.name = "nickel"   -> SerializeNickel(s)
      [] scanner.name = "hcl"       -> SerializeHcl(s)
      [] scanner.name = "csharp"    -> SerializeCsharp(s)
      [] OTHER -> << >>

\* ExternalScanner.Deserialize, into the state that a payload holds.
Deserialize(scanner, s, buf) ==
    CASE scanner.kind = "vm"         -> DeserializeVM(s, buf)
      [] scanner.name \in RawStrings -> DeserializeRawString(s, buf)
      [] scanner.name \in Margined   -> DeserializeIndented(s, buf)
      [] scanner.name \in Tagged     -> htmlDeserializeTags(buf)
      [] scanner.name = "haxe"     -> DeserializeHaxe(s, buf)
      [] scanner.name = "bicep"    -> DeserializeBicep(s, buf)
      [] scanner.name = "nushell"  -> DeserializeNushell(s, buf)
      [] scanner.name = "luau"     -> DeserializeLuau(s, buf)
      [] scanner.name = "jsonnet"  -> DeserializeJsonnet(s, buf)
      [] scanner.name = "templ"    -> DeserializeTempl(s, buf)
      [] scanner.name = "disassembly"-> DeserializeDisassembly(s, buf)
      [] scanner.name = "earthfile"-> DeserializeEarthfile(s, buf)
      [] scanner.name = "just"     -> DeserializeJust(s, buf)
      [] scanner.name = "cairo"    -> DeserializeCairo(s, buf)
      [] scanner.name = "cmake"    -> DeserializeCmake(s, buf)
      [] scanner.name = "beancount"-> DeserializeBeancount(s, buf)
      [] scanner.name = "sql"      -> DeserializeSql(s, buf)
      [] scanner.name = "hack"     -> DeserializeHack(s, buf)
      [] scanner.name = "dockerfile"-> DeserializeDockerfile(s, buf)
      [] scanner.name = "org"      -> DeserializeOrg(s, buf)
      [] scanner.name \in Pythonic -> DeserializePython(s, buf)
      [] scanner.name = "teal"     -> DeserializeTeal(s, buf)
      [] scanner.name = "nickel"   -> DeserializeNickel(s, buf)
      [] scanner.name = "hcl"       -> DeserializeHcl(s, buf)
      [] scanner.name = "csharp"    -> DeserializeCsharp(s, buf)
      [] OTHER -> NoState
=============================================================================
