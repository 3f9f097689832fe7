----------------------------- MODULE JsonLexer ------------------------------
(***************************************************************************)
(* The lexer of the json library: class lexer reads bytes one at a time    *)
(* and turns them into tokens.  A step of the model is one call of get()   *)
(* with what the scanner does before the next one; mode says where in      *)
(* scan(), scan_string(), scan_number() or scan_literal() it stands.       *)
(*                                                                         *)
(* The input is chosen while it is read: the i-th byte is any member of    *)
(* shape.bytes[i], and the input may end early unless shape.whole.  The    *)
(* range of integers is 0 .. UnsignedMax and -NegativeMax .. -1; anything  *)
(* beyond is a float, and a number above 10^MaxExponent overflows to       *)
(* infinity.                                                               *)
(***************************************************************************)
EXTENDS JsonValue, TLC

CONSTANTS
    UnsignedMax,    \* largest number_unsigned_t (2^64 - 1 in the code)
    NegativeMax,    \* magnitude of the smallest number_integer_t (2^63)
    MaxExponent     \* largest decimal exponent of number_float_t (308)

ASSUME NumberAssumption == UnsignedMax \in Nat /\ NegativeMax \in Nat /\ MaxExponent \in Nat

VARIABLES
    shape,        \* what the input may be
    read,         \* the bytes taken from the input adapter
    ended,        \* the adapter has returned eof
    current,      \* current
    nextUnget,    \* next_unget
    mode,         \* where the scanner stands, "idle" between two tokens
    expect,       \* bytes or byte ranges still to come
    code,         \* code points of a \u escape: [high, value, digits]
    tokenBuffer,  \* token_buffer
    token         \* the last token, [type, value]

lexVars == <<shape, read, ended, current, nextUnget, mode, expect, code, tokenBuffer, token>>

EOF    == -1
Quote  == 34
Escape == 92
Digits == 48 .. 57
NoCode == [high |-> 0, value |-> 0, digits |-> 0]

\* No token: the scanner is at work.
NoToken == [type |-> "uninitialized", value |-> Null]

LexInit(shapes) ==
    /\ shape \in shapes
    /\ read = << >>
    /\ ended = FALSE
    /\ current = EOF
    /\ nextUnget = FALSE
    /\ mode = "bom"
    /\ expect = << >>
    /\ code = NoCode
    /\ tokenBuffer = << >>
    /\ token = NoToken

-----------------------------------------------------------------------------
(* Input                                                                    *)

NextBytes ==
    IF nextUnget THEN {current}
    ELSE IF ended \/ Len(read) = Len(shape.bytes) THEN {EOF}
    ELSE shape.bytes[Len(read) + 1] \cup (IF shape.whole THEN {} ELSE {EOF})

\* get() returns c; with back it is followed by unget().
Get(c, back) ==
    /\ c \in NextBytes
    /\ current' = c
    /\ nextUnget' = back
    /\ read' = IF nextUnget \/ c = EOF THEN read ELSE Append(read, c)
    /\ ended' = (ended \/ c = EOF)
    /\ UNCHANGED shape

Add(bytes) == tokenBuffer' = tokenBuffer \o bytes

GoTo(m) == mode' = m /\ UNCHANGED token

\* scan() returns a token.
Return(type, value) ==
    /\ mode' = "idle"
    /\ token' = [type |-> type, value |-> value]

Fail == Return("parse_error", Null)

-----------------------------------------------------------------------------
(* scan()                                                                   *)

\* skip_bom: the first byte decides whether a byte order mark is expected.
SkipBom ==
    /\ mode = "bom"
    /\ \E c \in NextBytes :
          \/ c = 239 /\ Get(c, FALSE) /\ GoTo("bom rest") /\ expect' = <<187, 191>>
          \/ c # 239 /\ Get(c, TRUE) /\ GoTo("scan") /\ UNCHANGED expect
    /\ UNCHANGED <<code, tokenBuffer>>

\* The bytes after the first one of a byte order mark or of a literal.
Expected(m, done) ==
    /\ mode = m
    /\ \E c \in NextBytes :
          /\ Get(c, FALSE)
          /\ \/ /\ c = Head(expect)
                /\ expect' = Tail(expect)
                /\ IF Len(expect) > 1 THEN UNCHANGED <<mode, token>> ELSE done
             \/ c # Head(expect) /\ expect' = << >> /\ Fail

BomRest == Expected("bom rest", GoTo("scan")) /\ UNCHANGED <<code, tokenBuffer>>

Spaces == {32, 9, 10, 13}
Structural ==
    [c \in {91, 93, 123, 125, 58, 44} |->
        CASE c = 91  -> "begin_array"  [] c = 93  -> "end_array"
          [] c = 123 -> "begin_object" [] c = 125 -> "end_object"
          [] c = 58  -> "name_separator" [] c = 44 -> "value_separator"]
Literals ==
    116 :> <<114, 117, 101>> @@ 102 :> <<97, 108, 115, 101>> @@ 110 :> <<117, 108, 108>>

\* scan_literal returns the token of the literal it was called for.
LiteralToken ==
    \/ tokenBuffer = <<116>> /\ Return("literal_true", Boolean(TRUE))
    \/ tokenBuffer = <<102>> /\ Return("literal_false", Boolean(FALSE))
    \/ tokenBuffer = <<110>> /\ Return("literal_null", Null)

\* The first byte of a number leads out of the state init.
NumberStart == 45 :> "minus" @@ 48 :> "zero" @@ [c \in 49 .. 57 |-> "any1"]

\* scan: skips white space and decides by the first byte of the token.  (The
\* first byte of a literal is kept in tokenBuffer to tell the literals apart.)
Scan ==
    /\ mode = "scan"
    /\ \E c \in NextBytes :
          /\ Get(c, FALSE)
          /\ tokenBuffer' = IF c \in DOMAIN NumberStart \cup DOMAIN Literals
                            THEN <<c>> ELSE << >>
          /\ expect' = IF c \in DOMAIN Literals THEN Literals[c] ELSE << >>
          /\ \/ c \in Spaces /\ UNCHANGED <<mode, token>>
             \/ c \in DOMAIN Structural /\ Return(Structural[c], Null)
             \/ c \in DOMAIN Literals /\ GoTo("literal")
             \/ c = Quote /\ GoTo("string")
             \/ c \in DOMAIN NumberStart /\ GoTo(NumberStart[c])
             \/ c \in {0, EOF} /\ Return("end_of_input", Null)
             \/ /\ c \notin Spaces \cup DOMAIN Structural \cup DOMAIN Literals
                            \cup DOMAIN NumberStart \cup {Quote, 0, EOF}
                /\ Fail
    /\ UNCHANGED code

ScanLiteral == Expected("literal", LiteralToken) /\ UNCHANGED <<code, tokenBuffer>>

-----------------------------------------------------------------------------
(* scan_string()                                                            *)

\* The range of the bytes that continue a UTF-8 sequence.
Cont == <<128, 191>>

\* The ranges of the bytes that follow the first byte of a UTF-8 sequence.
Following(c) ==
    CASE c \in 194 .. 223 -> <<Cont>>
      [] c = 224          -> <<<<160, 191>>, Cont>>
      [] c \in (225 .. 239) \ {237} -> <<Cont, Cont>>
      [] c = 237          -> <<<<128, 159>>, Cont>>
      [] c = 240          -> <<<<144, 191>>, Cont, Cont>>
      [] c \in 241 .. 243 -> <<Cont, Cont, Cont>>
      [] c = 244          -> <<<<128, 143>>, Cont, Cont>>
      [] OTHER            -> << >>

ScanString ==
    /\ mode = "string"
    /\ \E c \in NextBytes :
          /\ Get(c, FALSE)
          /\ \/ c = Quote /\ Return("value_string", String(tokenBuffer))
                /\ UNCHANGED <<tokenBuffer, expect>>
             \/ c = Escape /\ GoTo("escape") /\ UNCHANGED <<tokenBuffer, expect>>
             \/ c \in (32 .. 127) \ {Quote, Escape} /\ Add(<<c>>)
                /\ UNCHANGED <<mode, token, expect>>
             \/ Following(c) # << >> /\ Add(<<c>>) /\ GoTo("utf8") /\ expect' = Following(c)
             \/ c \in -1 .. 31 \cup 128 .. 255 /\ Following(c) = << >> /\ Fail
                /\ UNCHANGED <<tokenBuffer, expect>>
    /\ UNCHANGED code

\* next_byte_in_range.
NextByteInRange ==
    /\ mode = "utf8"
    /\ \E c \in NextBytes :
          /\ Get(c, FALSE)
          /\ expect' = Tail(expect)
          /\ \/ /\ c \in Head(expect)[1] .. Head(expect)[2]
                /\ Add(<<c>>)
                /\ GoTo(IF Len(expect) = 1 THEN "string" ELSE "utf8")
             \/ c \notin Head(expect)[1] .. Head(expect)[2] /\ Fail /\ UNCHANGED tokenBuffer
    /\ UNCHANGED code

SimpleEscapes ==
    [c \in {34, 92, 47, 98, 102, 110, 114, 116} |->
        CASE c \in {34, 92, 47} -> c [] c = 98 -> 8 [] c = 102 -> 12
          [] c = 110 -> 10 [] c = 114 -> 13 [] c = 116 -> 9]

ScanEscape ==
    /\ mode = "escape"
    /\ \E c \in NextBytes :
          /\ Get(c, FALSE)
          /\ \/ c \in DOMAIN SimpleEscapes /\ Add(<<SimpleEscapes[c]>>) /\ GoTo("string")
                /\ UNCHANGED code
             \/ c = 117 /\ GoTo("codepoint") /\ code' = NoCode /\ UNCHANGED tokenBuffer
             \/ c \notin DOMAIN SimpleEscapes \cup {117} /\ Fail /\ UNCHANGED <<tokenBuffer, code>>
    /\ UNCHANGED expect

HexDigit ==
    [c \in 48 .. 57 \cup 65 .. 70 \cup 97 .. 102 |->
        CASE c <= 57 -> c - 48 [] c \in 65 .. 70 -> c - 55 [] c >= 97 -> c - 87]

\* A code point as UTF-8 bytes.
Utf8(n) ==
    IF n < 128 THEN <<n>>
    ELSE IF n < 2048 THEN <<192 + (n \div 64), 128 + (n % 64)>>
    ELSE IF n < 65536 THEN <<224 + (n \div 4096), 128 + ((n \div 64) % 64), 128 + (n % 64)>>
    ELSE <<240 + (n \div 262144), 128 + ((n \div 4096) % 64),
           128 + ((n \div 64) % 64), 128 + (n % 64)>>

High == 55296 .. 56319
Low  == 56320 .. 57343

\* Fault: a pending high surrogate is forgotten and takes any second code point.
LooseEndCodepoint(high, n) ==
    \/ high = 0 /\ n \in High /\ code' = [NoCode EXCEPT !.high = n]
       /\ GoTo("surrogate") /\ expect' = <<Escape, 117>> /\ UNCHANGED tokenBuffer
    \/ (high # 0 \/ n \notin High) /\ Add(Utf8(n)) /\ GoTo("string")
       /\ code' = NoCode /\ UNCHANGED expect

\* A code point is complete: a high surrogate waits for a low one.  (The code
\* writes the sum with shifts; high is 0 while no high surrogate is pending.)
EndCodepoint(high, n) ==
    \/ high = 0 /\ n \in High /\ code' = [NoCode EXCEPT !.high = n]
       /\ GoTo("surrogate") /\ expect' = <<Escape, 117>> /\ UNCHANGED tokenBuffer
    \/ high = 0 /\ n \in Low /\ Fail /\ code' = NoCode /\ UNCHANGED <<tokenBuffer, expect>>
    \/ high = 0 /\ n \notin High \cup Low /\ Add(Utf8(n)) /\ GoTo("string")
       /\ code' = NoCode /\ UNCHANGED expect
    \/ high # 0 /\ n \in Low /\ Add(Utf8(high * 1024 + n - 56613888)) /\ GoTo("string")
       /\ code' = NoCode /\ UNCHANGED expect
    \/ high # 0 /\ n \notin Low /\ Fail /\ code' = NoCode /\ UNCHANGED <<tokenBuffer, expect>>

\* get_codepoint: four hexadecimal digits.
GetCodepoint ==
    /\ mode = "codepoint"
    /\ \E c \in NextBytes :
          /\ Get(c, FALSE)
          /\ \/ /\ c \in DOMAIN HexDigit /\ code.digits < 3
                /\ code' = [code EXCEPT !.value = 16 * @ + HexDigit[c], !.digits = @ + 1]
                /\ UNCHANGED <<mode, token, tokenBuffer, expect>>
             \/ /\ c \in DOMAIN HexDigit /\ code.digits = 3
                /\ EndCodepoint(code.high, 16 * code.value + HexDigit[c])
             \/ c \notin DOMAIN HexDigit /\ Fail /\ code' = NoCode
                /\ UNCHANGED <<tokenBuffer, expect>>

\* \u must follow a high surrogate.
Surrogate == Expected("surrogate", GoTo("codepoint")) /\ UNCHANGED <<code, tokenBuffer>>

-----------------------------------------------------------------------------
(* scan_number()                                                            *)

Exponents == {69, 101}
NumberStates ==
    {"minus", "zero", "any1", "decimal1", "decimal2", "exponent", "sign", "any2"}

\* The labels scan_number_...: where byte c leads from state s.
NumberMove(s, c) ==
    CASE s = "minus" /\ c = 48                                     -> "zero"
      [] s = "minus" /\ c \in 49 .. 57                             -> "any1"
      [] s = "any1" /\ c \in Digits                                -> "any1"
      [] s \in {"zero", "any1"} /\ c = 46                          -> "decimal1"
      [] s \in {"zero", "any1", "decimal2"} /\ c \in Exponents     -> "exponent"
      [] s \in {"decimal1", "decimal2"} /\ c \in Digits            -> "decimal2"
      [] s = "exponent" /\ c \in {43, 45}                          -> "sign"
      [] s \in {"exponent", "sign", "any2"} /\ c \in Digits        -> "any2"
      [] s \in {"zero", "any1", "decimal2", "any2"}                -> "done"
      [] OTHER                                                     -> "error"

\* strtoull, strtoll: the number the digits of s denote.
Decimal(s) ==
    FoldLeft(LAMBDA n, c : IF c \in Digits THEN 10 * n + c - 48 ELSE n, 0, s)

IsFloat(s) == \E i \in DOMAIN s : s[i] = 46 \/ s[i] \in Exponents

\* scan_number_done: integers first, floats when they do not fit.
NumberToken(s) ==
    CASE ~IsFloat(s) /\ s[1] # 45 /\ Decimal(s) <= UnsignedMax ->
            [type |-> "value_unsigned", value |-> Unsigned(Decimal(s))]
      [] ~IsFloat(s) /\ s[1] = 45 /\ Decimal(s) <= NegativeMax ->
            [type |-> "value_integer", value |-> Integer(-Decimal(s))]
      [] OTHER -> [type |-> "value_float", value |-> Float(s)]

ScanNumber ==
    /\ mode \in NumberStates
    /\ \E c \in NextBytes :
          LET next == NumberMove(mode, c)
          IN  \/ next = "done" /\ Get(c, TRUE) /\ mode' = "idle"
                 /\ token' = NumberToken(tokenBuffer) /\ UNCHANGED tokenBuffer
              \/ next = "error" /\ Get(c, FALSE) /\ Fail /\ UNCHANGED tokenBuffer
              \/ next \in NumberStates /\ Get(c, FALSE) /\ GoTo(next) /\ Add(<<c>>)
    /\ UNCHANGED <<expect, code>>

-----------------------------------------------------------------------------
LexStep ==
    \/ SkipBom \/ BomRest \/ Scan \/ ScanLiteral
    \/ ScanString \/ NextByteInRange \/ ScanEscape \/ GetCodepoint \/ Surrogate
    \/ ScanNumber

\* get_token: the next call of scan().
GetToken ==
    /\ mode' = "scan"
    /\ token' = NoToken
    /\ UNCHANGED <<shape, read, ended, current, nextUnget, expect, code, tokenBuffer>>
=============================================================================
