---------------------------- MODULE JsonGrammar -----------------------------
(***************************************************************************)
(* The reference for the parser of the json library: the JSON grammar of   *)
(* RFC 7159, which the comments of the lexer cite, as the set of values a  *)
(* text denotes: no value if it is not JSON, and one if it is.  It shares  *)
(* with the lexer only the limits of the number types; characters, digits, *)
(* escapes and encodings are defined here again.                           *)
(***************************************************************************)
EXTENDS JsonParser

Sub(s, i, j) == SubSeq(s, i, j)
Splits(s, c) == {i \in DOMAIN s : s[i] = c}

WhiteSpace == {9, 10, 13, 32}

RECURSIVE Trim(_)
Trim(s) ==
    IF s # << >> /\ s[1] \in WhiteSpace THEN Trim(Tail(s))
    ELSE IF s # << >> /\ Last(s) \in WhiteSpace THEN Trim(Front(s))
    ELSE s

-----------------------------------------------------------------------------
(* Numbers: [ minus ] int [ frac ] [ exp ]                                  *)

AllDigits(s) == s # << >> /\ \A i \in DOMAIN s : s[i] - 48 \in 0 .. 9
IsInt(s)  == AllDigits(s) /\ (s[1] = 48 => Len(s) = 1)
IsFrac(s) == s = << >> \/ (s[1] = 46 /\ AllDigits(Tail(s)))
Unsign(s) == IF s # << >> /\ s[1] \in {43, 45} THEN Tail(s) ELSE s
IsExp(s)  == s = << >> \/ (s[1] \in {69, 101} /\ AllDigits(Unsign(Tail(s))))

RECURSIVE Natural(_)
Natural(s) == IF s = << >> THEN 0 ELSE 10 * Natural(Front(s)) + Last(s) - 48

RECURSIVE Significant(_)
Significant(s) == IF s # << >> /\ s[1] = 48 THEN Significant(Tail(s)) ELSE s

\* A number without frac and exp is an integer if it fits; any other one is a
\* float, if its first significant digit is not beyond the largest exponent.
NumberOf(minus, int, frac, exp) ==
    LET digits   == Significant(int \o (IF frac = << >> THEN << >> ELSE Tail(frac)))
        places   == IF frac = << >> THEN 0 ELSE Len(frac) - 1
        scale    == IF exp = << >> THEN 0 ELSE Natural(Unsign(Tail(exp)))
        exponent == IF exp # << >> /\ exp[2] = 45 THEN -scale ELSE scale
    IN  IF frac = << >> /\ exp = << >> /\ ~minus /\ Natural(int) <= UnsignedMax
        THEN {Unsigned(Natural(int))}
        ELSE IF frac = << >> /\ exp = << >> /\ minus /\ Natural(int) <= NegativeMax
        THEN {Integer(-Natural(int))}
        ELSE IF digits = << >> \/ Len(digits) - places + exponent <= MaxExponent + 1
        THEN {Float((IF minus THEN <<45>> ELSE << >>) \o int \o frac \o exp)}
        ELSE {}

NumbersOf(s) ==
    LET minus == s # << >> /\ s[1] = 45
        body  == IF minus THEN Tail(s) ELSE s
        ints  == {i \in 1 .. Len(body) : IsInt(Sub(body, 1, i))}
    IN  UNION {UNION {IF IsFrac(Sub(body, i + 1, j)) /\ IsExp(Sub(body, j + 1, Len(body)))
                      THEN NumberOf(minus, Sub(body, 1, i), Sub(body, i + 1, j),
                                    Sub(body, j + 1, Len(body)))
                      ELSE {}
                      : j \in i .. Len(body)} : i \in ints}

-----------------------------------------------------------------------------
(* Strings: the unescaped characters and the escapes, as UTF-8 bytes        *)

\* Scalar values: the two blocks of surrogates are none.
IsLead(n)   == n \div 1024 = 54
IsTrail(n)  == n \div 1024 = 55
IsScalar(n) == n <= 1114111 /\ ~IsLead(n) /\ ~IsTrail(n)

\* The shortest encoding of a scalar value in UTF-8: six bits to a byte behind
\* the first one.
Width(n) == IF n < 128 THEN 1 ELSE IF n < 2048 THEN 2 ELSE IF n < 65536 THEN 3 ELSE 4
Encoding(n) ==
    [i \in 1 .. Width(n) |-> IF i = 1 THEN <<0, 192, 224, 240>>[Width(n)] + (n \div 64^(Width(n) - 1))
                             ELSE 128 + ((n \div 64^(Width(n) - i)) % 64)]

\* The payload bits of a UTF-8 sequence.
Payload(s) ==
    FoldLeft(LAMBDA n, b : 64 * n + (b % 64), s[1] % <<128, 32, 16, 8>>[Len(s)], Tail(s))
IsUtf8(s) == Len(s) \in 1 .. 4 /\ IsScalar(Payload(s)) /\ Encoding(Payload(s)) = s

\* The characters that may follow a backslash, and what they stand for.
Pairs == {<<34, 34>>, <<92, 92>>, <<47, 47>>, <<98, 8>>, <<102, 12>>, <<110, 10>>,
          <<114, 13>>, <<116, 9>>}

\* \uXXXX with the digits 0123456789abcdef or 0123456789ABCDEF.
HexDigits == <<48, 49, 50, 51, 52, 53, 54, 55, 56, 57, 97, 98, 99, 100, 101, 102>>
Hex(c) == {i \in 0 .. 15 : HexDigits[i + 1] = c \/ (i > 9 /\ HexDigits[i + 1] - 32 = c)}
Units(s) ==
    IF Len(s) = 6 /\ s[1] = 92 /\ s[2] = 117
    THEN {4096 * p + 256 * q + 16 * r + t : p \in Hex(s[3]), q \in Hex(s[4]),
                                            r \in Hex(s[5]), t \in Hex(s[6])}
    ELSE {}

\* The sequences of bytes that one character of a string stands for.
Character(s) ==
    (IF IsUtf8(s) /\ s[1] >= 32 /\ s[1] \notin {34, 92} THEN {s} ELSE {})
    \cup {<<p[2]>> : p \in {q \in Pairs : s = <<92, q[1]>>}}
    \cup {Encoding(n) : n \in {u \in Units(s) : IsScalar(u)}}
    \cup (IF Len(s) = 12
          THEN {Encoding(65536 + 1024 * (p[1] % 1024) + (p[2] % 1024)) :
                  p \in {q \in Units(Sub(s, 1, 6)) \X Units(Sub(s, 7, 12)) :
                           IsLead(q[1]) /\ IsTrail(q[2])}}
          ELSE {})

RECURSIVE Characters(_)
Characters(s) ==
    IF s = << >> THEN {<< >>}
    ELSE UNION {{c \o rest : c \in Character(Sub(s, 1, i)), rest \in Characters(Sub(s, i + 1, Len(s)))}
                : i \in {i \in {1, 2, 3, 4, 6, 12} : i <= Len(s) /\ Character(Sub(s, 1, i)) # {}}}

Strings(s) ==
    IF Len(s) >= 2 /\ s[1] = 34 /\ Last(s) = 34 THEN Characters(Sub(s, 2, Len(s) - 1)) ELSE {}

-----------------------------------------------------------------------------
(* Values                                                                   *)

RECURSIVE Values(_)
RECURSIVE Elements(_)
RECURSIVE MembersOf(_)
Values(t) ==
    LET s      == Trim(t)
        inside == Trim(Sub(s, 2, Len(s) - 1))
        Bracketed(a, b) == Len(s) >= 2 /\ s[1] = a /\ Last(s) = b
    IN  (IF s = <<116, 114, 117, 101>> THEN {Boolean(TRUE)} ELSE {})
        \cup (IF s = <<102, 97, 108, 115, 101>> THEN {Boolean(FALSE)} ELSE {})
        \cup (IF s = <<110, 117, 108, 108>> THEN {Null} ELSE {})
        \cup NumbersOf(s)
        \cup {String(c) : c \in Strings(s)}
        \cup (IF Bracketed(91, 93)
              THEN IF inside = << >> THEN {Array(<< >>)} ELSE {Array(e) : e \in Elements(inside)}
              ELSE {})
        \cup (IF Bracketed(123, 125)
              THEN IF inside = << >> THEN {EmptyObject} ELSE MembersOf(inside)
              ELSE {})

Elements(s) ==
    {<<v>> : v \in Values(s)}
    \cup UNION {{<<v>> \o rest : v \in Values(Sub(s, 1, i - 1)), rest \in Elements(Sub(s, i + 1, Len(s)))}
                : i \in Splits(s, 44)}

\* Of members with the same key the last one counts.
OneMember(s) ==
    UNION {{WithKey(EmptyObject, k, v) : k \in Strings(Trim(Sub(s, 1, i - 1))),
                                         v \in Values(Sub(s, i + 1, Len(s)))}
           : i \in Splits(s, 58)}
MembersOf(s) ==
    OneMember(s)
    \cup UNION {{Object(Content(rest) @@ Content(m)) : m \in OneMember(Sub(s, 1, i - 1)),
                                                      rest \in MembersOf(Sub(s, i + 1, Len(s)))}
                : i \in Splits(s, 44)}

\* A document: a byte order mark is ignored, a zero byte ends it.
Denotes(text) ==
    LET zeros == Splits(text, 0)
        cut   == IF zeros = {} THEN text
                 ELSE Sub(text, 1, (CHOOSE i \in zeros : \A j \in zeros : i <= j) - 1)
    IN  Values(IF Len(cut) >= 3 /\ Sub(cut, 1, 3) = <<239, 187, 191>>
               THEN Sub(cut, 4, Len(cut)) ELSE cut)
=============================================================================
