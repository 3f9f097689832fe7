--------------------------- MODULE JsonSerializer ---------------------------
(***************************************************************************)
(* The serializer of the json library: dump() writes a value as text.      *)
(* A string passes through string_buffer, which is flushed when fewer than *)
(* Slack bytes are left; the model keeps the fill of the buffer and the    *)
(* highest fill it ever had.  BufferSize is the size of the buffer.        *)
(* The widest indentation is assumed to fit indent_string.                 *)
(***************************************************************************)
EXTENDS JsonValue

CONSTANT BufferSize   \* string_buffer.size() (512 in the code)

Slack == 13           \* "\\uxxxx\\uxxxx" and the zero that snprintf adds

-----------------------------------------------------------------------------
(* decode(): the automaton that follows the UTF-8 bytes of a string         *)

\* The table utf8d: the state after a byte, named by what has to follow.
Decode(s, b) ==
    CASE s = "accept" /\ b < 128                      -> "accept"
      [] s = "accept" /\ b \in 194 .. 223             -> "one"
      [] s = "accept" /\ b = 224                      -> "A0..BF, one"
      [] s = "accept" /\ b \in (225 .. 239) \ {237}   -> "two"
      [] s = "accept" /\ b = 237                      -> "80..9F, one"
      [] s = "accept" /\ b = 240                      -> "90..BF, two"
      [] s = "accept" /\ b \in 241 .. 243             -> "three"
      [] s = "accept" /\ b = 244                      -> "80..8F, two"
      [] s = "one" /\ b \in 128 .. 191                -> "accept"
      [] s = "two" /\ b \in 128 .. 191                -> "one"
      [] s = "A0..BF, one" /\ b \in 160 .. 191        -> "one"
      [] s = "80..9F, one" /\ b \in 128 .. 159        -> "one"
      [] s = "three" /\ b \in 128 .. 191              -> "two"
      [] s = "90..BF, two" /\ b \in 144 .. 191        -> "two"
      [] s = "80..8F, two" /\ b \in 128 .. 143        -> "two"
      [] OTHER                                        -> "reject"

\* The bits of the code point that a first byte carries.
LeadBits(b) ==
    CASE b < 128          -> b
      [] b \in 128 .. 223 -> b % 32
      [] b \in 224 .. 239 -> b % 16
      [] OTHER            -> b % 8

HexChar(n) == IF n < 10 THEN 48 + n ELSE 87 + n
UEscape(n) ==
    <<92, 117, HexChar(n \div 4096), HexChar((n \div 256) % 16),
      HexChar((n \div 16) % 16), HexChar(n % 16)>>

-----------------------------------------------------------------------------
(* dump_escaped()                                                           *)

\* Fault: the high surrogate is computed from 0xD800.
ShiftedHighSurrogate(n) == 55296 + (n \div 1024)

\* A code point beyond 0xFFFF as the two halves of a pair, the first one from
\* 0xD7C0.
HighSurrogate(n) == 55232 + (n \div 1024)
LowSurrogate(n)  == 56320 + (n % 1024)

\* The bytes written for a complete code point n; last is its last byte.
Escaped(n, last, ascii) ==
    CASE n = 8  -> <<92, 98>>
      [] n = 9  -> <<92, 116>>
      [] n = 10 -> <<92, 110>>
      [] n = 12 -> <<92, 102>>
      [] n = 13 -> <<92, 114>>
      [] n = 34 -> <<92, 34>>
      [] n = 92 -> <<92, 92>>
      [] n \in (0 .. 31) \ {8, 9, 10, 12, 13} \/ (ascii /\ n >= 127 /\ n <= 65535) -> UEscape(n)
      [] ascii /\ n > 65535 -> UEscape(HighSurrogate(n)) \o UEscape(LowSurrogate(n))
      [] OTHER -> <<last>>

\* The zero that snprintf writes behind an escape.
Terminator(bytes) == IF Len(bytes) >= 6 THEN 1 ELSE 0

\* One byte: [state, cp, out, fill, high, ok], fill being the bytes in
\* string_buffer and high the most it ever held.
EscapeByte(a, b, ascii) ==
    LET state == Decode(a.state, b)
        cp    == IF a.state = "accept" THEN LeadBits(b) ELSE 64 * a.cp + (b % 64)
        piece == IF state = "accept" THEN Escaped(cp, b, ascii)
                 ELSE IF ascii THEN << >> ELSE <<b>>
        fill  == a.fill + Len(piece)
    IN  IF ~a.ok \/ state = "reject" THEN [a EXCEPT !.ok = FALSE]
        ELSE [state |-> state, cp |-> cp, ok |-> TRUE,
              out  |-> a.out \o piece,
              fill |-> IF state = "accept" /\ BufferSize - fill < Slack THEN 0 ELSE fill,
              high |-> IF fill + Terminator(piece) > a.high
                       THEN fill + Terminator(piece) ELSE a.high]

DumpEscaped(s, ascii) ==
    LET end == FoldLeft(LAMBDA a, b : EscapeByte(a, b, ascii),
                        [state |-> "accept", cp |-> 0, ok |-> TRUE, out |-> << >>,
                         fill |-> 0, high |-> 0], s)
    IN  [end EXCEPT !.ok = @ /\ end.state = "accept"]

-----------------------------------------------------------------------------
(* dump()                                                                   *)

Indent(n) == [i \in 1 .. n |-> 32]

\* What stands before the first, between two and after the last element of a
\* container, for a step of indentation or Compact output.
Compact == -1         \* pretty_print is false
Open(step, indent)  == IF step = Compact THEN << >> ELSE <<10>> \o Indent(indent + step)
Comma(step, indent) == IF step = Compact THEN <<44>> ELSE <<44, 10>> \o Indent(indent + step)
Close(step, indent) == IF step = Compact THEN << >> ELSE <<10>> \o Indent(indent)

Joined(parts, sep) ==
    FoldLeft(LAMBDA all, i : all \o (IF i = 1 THEN << >> ELSE sep) \o parts[i],
             << >>, [i \in DOMAIN parts |-> i])

\* A value that is no container.
DumpScalar(v, ascii) ==
    CASE Kind(v) = "string"    -> <<34>> \o DumpEscaped(Content(v), ascii).out \o <<34>>
      [] Kind(v) = "boolean"   -> IF Content(v) THEN <<116, 114, 117, 101>>
                                  ELSE <<102, 97, 108, 115, 101>>
      [] Kind(v) \in {"number_integer", "number_unsigned"} -> DumpInteger(Content(v))
      [] Kind(v) = "number_float" -> Content(v)
      [] Kind(v) = "discarded" -> <<60, 100, 105, 115, 99, 97, 114, 100, 101, 100, 62>>
      [] Kind(v) = "null"      -> <<110, 117, 108, 108>>

RECURSIVE Dump(_, _, _, _)
Dump(v, ascii, step, indent) ==
    CASE IsObject(v) /\ DOMAIN Content(v) = {} -> <<123, 125>>
      [] IsObject(v) /\ DOMAIN Content(v) # {} ->
            LET Member(k) == <<34>> \o DumpEscaped(k, ascii).out
                             \o (IF step = Compact THEN <<34, 58>> ELSE <<34, 58, 32>>)
                             \o Dump(Content(v)[k], ascii, step, indent + step)
            IN  <<123>> \o Open(step, indent)
                \o Joined([i \in DOMAIN Keys(v) |-> Member(Keys(v)[i])], Comma(step, indent))
                \o Close(step, indent) \o <<125>>
      [] IsArray(v) /\ Content(v) = << >> -> <<91, 93>>
      [] IsArray(v) /\ Content(v) # << >> ->
            <<91>> \o Open(step, indent)
            \o Joined([i \in DOMAIN Content(v) |-> Dump(Content(v)[i], ascii, step, indent + step)],
                      Comma(step, indent))
            \o Close(step, indent) \o <<93>>
      [] OTHER -> DumpScalar(v, ascii)

\* The strings and keys in v.
RECURSIVE StringsOf(_)
StringsOf(v) ==
    CASE IsObject(v) -> DOMAIN Content(v)
                        \cup UNION {StringsOf(Content(v)[k]) : k \in DOMAIN Content(v)}
      [] IsArray(v)  -> UNION {StringsOf(Content(v)[i]) : i \in DOMAIN Content(v)}
      [] Kind(v) = "string" -> {Content(v)}
      [] OTHER -> {}
=============================================================================
