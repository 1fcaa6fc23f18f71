-------------------------------- MODULE Dotenv --------------------------------
(***************************************************************************)
(* DotenvFile.format and DotenvFile.parse, and the reader on the other     *)
(* side of the written file, op run.  A text is a sequence of characters;  *)
(* an env is a sequence of <<key, value>> in the order of Object.entries.  *)
(***************************************************************************)
EXTENDS Integers, Sequences, SequencesExt

(* Characters without a name of their own, and "expanded" for what a shell's  *)
(* expansion makes of one.                                                    *)
Blank == "BLANK"
Bom == "BOM"
Quote == "QUOTE"
Letters == {"A", "B", "n", "r", "x"}
Spaces == {Blank, "\n", "\r", Bom}
FormatCharacters ==
    Letters \cup Spaces \cup {"\\", "$", Quote, "'", "=", "#", "export", "expanded"}

(* text.replace(/c/g, by) *)
Replaced(text, c, by) ==
    FlattenSeq([i \in DOMAIN text |-> IF text[i] = c THEN by ELSE <<text[i]>>])

-----------------------------------------------------------------------------
(* Writing. *)

SAFE_UNQUOTED(value) == value # <<>> /\ Range(value) \subseteq Letters

VALID_KEY(key) ==
    key # <<>> /\ Head(key) # "#" /\ Range(key) \cap (Spaces \cup {"="}) = {}

EscapedQuotes(value) == Replaced(value, Quote, <<"\\", Quote>>)
EscapedRest(value) ==
    Replaced(Replaced(Replaced(value, "$", <<"\\", "$">>), "\n", <<"\\", "n">>), "\r", <<"\\", "r">>)

(* A bug: the backslashes that escape the quotes are escaped themselves. *)
EscapedLate(value) == Replaced(EscapedRest(EscapedQuotes(value)), "\\", <<"\\", "\\">>)

Escaped(value) == EscapedRest(EscapedQuotes(Replaced(value, "\\", <<"\\", "\\">>)))

FormatValue(value) ==
    IF SAFE_UNQUOTED(value) THEN value ELSE <<Quote>> \o Escaped(value) \o <<Quote>>

(* InvalidEnvKeyError for any key, and nothing is written. *)
Formattable(keys) == \A key \in keys : VALID_KEY(key)

Format(env) ==
    FlattenSeq([i \in DOMAIN env |-> env[i][1] \o <<"=">> \o FormatValue(env[i][2]) \o <<"\n">>])

-----------------------------------------------------------------------------
(* Reading. *)

(* content.split(/\r?\n/) *)
Lines(text) ==
    LET from[i \in 1..Len(text) + 1] ==
            IF i > Len(text) THEN << <<>> >>
            ELSE IF text[i] = "\n" THEN << <<>> >> \o from[i + 1]
            ELSE IF text[i] = "\r" /\ i < Len(text) /\ text[i + 1] = "\n" THEN from[i + 1]
            ELSE LET rest == from[i + 1] IN << <<text[i]>> \o Head(rest) >> \o Tail(rest)
    IN from[1]

TrimStart(text) ==
    LET first == SelectInSeq(text, LAMBDA c : c \notin Spaces)
    IN IF first = 0 THEN <<>> ELSE SubSeq(text, first, Len(text))

Trim(text) == Reverse(TrimStart(Reverse(TrimStart(text))))

Export == <<"export", Blank>>
WithoutExport(line) ==
    IF IsPrefix(Export, line) THEN SubSeq(line, Len(Export) + 1, Len(line)) ELSE line

WithoutBom(text) == IF text # <<>> /\ Head(text) = Bom THEN Tail(text) ELSE text

StripValueQuotes(value) ==
    IF Len(value) >= 2 /\ Head(value) \in {Quote, "'"} /\ Last(value) = Head(value)
    THEN SubSeq(value, 2, Len(value) - 1)
    ELSE value

(* The entries a line declares: one <<key, value>>, or none.                  *)
EntriesOf(rawLine) ==
    LET line == TrimStart(rawLine)
        stripped == WithoutExport(line)
        eq == SelectInSeq(stripped, LAMBDA c : c = "=")
        key == Trim(SubSeq(stripped, 1, eq - 1))
    IN IF line = <<>> \/ Head(line) = "#" \/ eq <= 1 \/ key = <<>> THEN <<>>
       ELSE << <<key, StripValueQuotes(SubSeq(stripped, eq + 1, Len(stripped)))>> >>

(* The declared entries; in the record they fill, the last one of a key wins. *)
Parse(text) ==
    LET lines == Lines(WithoutBom(text))
    IN FlattenSeq([k \in DOMAIN lines |-> EntriesOf(lines[k])])

-----------------------------------------------------------------------------
(* op run --env-file: in double quotes a backslash escapes the next          *)
(* character, and a bare $ or quote means something else than itself.        *)

Unescaped(text) ==
    LET from[i \in 1..Len(text) + 1] ==
            IF i > Len(text) THEN <<>>
            ELSE IF text[i] = "\\" /\ i < Len(text)
            THEN LET c == text[i + 1] IN
                 <<CASE c = "n" -> "\n" [] c = "r" -> "\r" [] OTHER -> c>> \o from[i + 2]
            ELSE <<IF text[i] \in {"$", Quote} THEN "expanded" ELSE text[i]>> \o from[i + 1]
    IN from[1]

OpValue(written) ==
    IF Len(written) >= 2 /\ Head(written) = Quote /\ Last(written) = Quote
    THEN Unescaped(SubSeq(written, 2, Len(written) - 1))
    ELSE written

OpReads(text) ==
    LET lines == Lines(text)
        eq(line) == SelectInSeq(line, LAMBDA c : c = "=")
        entry(line) == <<SubSeq(line, 1, eq(line) - 1), OpValue(SubSeq(line, eq(line) + 1, Len(line)))>>
    IN FlattenSeq([k \in DOMAIN lines |-> IF lines[k] = <<>> THEN <<>> ELSE <<entry(lines[k])>>])
=============================================================================
