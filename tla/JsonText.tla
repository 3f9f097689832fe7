------------------------------ MODULE JsonText -------------------------------
(***************************************************************************)
(* Text to value and back: the lexer and the parser of the json library on *)
(* any input, and on the text that the serializer writes for a value.      *)
(***************************************************************************)
EXTENDS JsonGrammar, JsonSerializer

CONSTANTS
    Shapes,      \* inputs to read: [bytes, whole]
    Documents,   \* values to write and read back: [value, ascii, step]
    Tails        \* ways in which an input may go on

VARIABLE doc     \* the value that was written, or NoDocument

NoDocument == [value |-> Discarded, ascii |-> FALSE, step |-> Compact]

jtVars == <<parseVars, doc>>

\* The only input is the given text.
Exactly(text) == [bytes |-> [i \in DOMAIN text |-> {text[i]}], whole |-> TRUE]

JtInit ==
    /\ doc \in Documents \cup {NoDocument}
    /\ ParseInit(IF doc = NoDocument THEN Shapes
                 ELSE {Exactly(Dump(doc.value, doc.ascii, doc.step, 0))})

JtNext == ParseNext /\ UNCHANGED doc

JtSpec == JtInit /\ [][JtNext]_jtVars

-----------------------------------------------------------------------------
(* Properties                                                               *)

\* The parser accepts a text only if it is JSON, with the value the grammar
\* gives it, and refuses one only if it is not: what it has read when it gives
\* up is not JSON, and does not begin one either unless the input had ended, for
\* every mix of white space, escapes, surrogates, UTF-8 sequences, numbers at
\* the edge of their range, nested and duplicate members, and for input that
\* ends anywhere.  A callback that keeps everything changes nothing.
ParsesGrammar ==
    /\ at = "accepted" /\ ~dropped => Denotes(read) = {root}
    /\ at = "rejected" => Denotes(read) = {}
    /\ at = "rejected" /\ ~ended /\ ~callback => \A t \in Tails : Denotes(read \o t) = {}

\* An integer that is not negative is unsigned once it was written and read.
RECURSIVE Canonical(_)
Canonical(v) ==
    CASE IsStructured(v) -> <<Kind(v), [i \in DOMAIN Content(v) |-> Canonical(Content(v)[i])]>>
      [] Kind(v) = "number_integer" /\ Content(v) >= 0 -> Unsigned(Content(v))
      [] OTHER -> v

\* What dump() writes, compact or indented, as UTF-8 or as ASCII, the parser
\* reads back as the same value, and no string overruns string_buffer.  Every
\* value that was parsed can be written: the byte ranges of the lexer and the
\* decoder of the serializer agree on what is UTF-8.
WriteReadBack ==
    /\ doc # NoDocument =>
          /\ at # "rejected"
          /\ at = "accepted" =>
                /\ dropped \/ root = Canonical(doc.value)
                /\ \A s \in StringsOf(doc.value) : DumpEscaped(s, doc.ascii).high <= BufferSize
    /\ at = "accepted" => \A s \in StringsOf(root), ascii \in BOOLEAN : DumpEscaped(s, ascii).ok
=============================================================================
