-------------------------- MODULE JsonBinaryWriter ---------------------------
(***************************************************************************)
(* The binary formats of the json library: binary_writer for CBOR,         *)
(* MessagePack and UBJSON.                                                 *)
(*                                                                         *)
(* A 64-bit number is the sequence of its eight bytes, the first one the   *)
(* most significant, as the union m_value holds it: a negative integer is  *)
(* its two's complement, a double its representation.  The writer throws   *)
(* by writing Thrown.                                                      *)
(***************************************************************************)
EXTENDS JsonValue

Thrown == -1

-----------------------------------------------------------------------------
(* Numbers of eight bytes                                                   *)

AllOnes       == [i \in 1 .. 8 |-> 255]
LowBytes(n, w)     == SubSeq(n, 9 - w, 8)
Complement(n) == [i \in 1 .. 8 |-> 255 - n[i]]          \* -1 - n
Negative(n)   == n[1] >= 128
FitsU(n, w)   == \A i \in 1 .. 8 - w : n[i] = 0
FitsS(n, w)   == \A i \in 1 .. 8 - w : n[i] = IF n[9 - w] >= 128 THEN 255 ELSE 0
NoMore(n, k)  == FitsU(n, 1) /\ n[8] <= k
Size(n)       == <<0, 0, 0, 0, n \div 16777216, (n \div 65536) % 256, (n \div 256) % 256, n % 256>>

\* The type of a double in each format.
FloatPrefix == [cbor |-> 251, msgpack |-> 203, ubjson |-> 68]

Concat(parts) == FoldLeft(LAMBDA all, s : all \o s, << >>, parts)
Each(keys, F(_)) == [i \in DOMAIN keys |-> F(keys[i])]

-----------------------------------------------------------------------------
(* write_cbor                                                               *)

\* A type and an argument n in the fewest bytes.
CborHead(major, n) ==
    CASE NoMore(n, 23)                    -> <<major + n[8]>>
      [] FitsU(n, 1) /\ ~NoMore(n, 23)    -> <<major + 24>> \o LowBytes(n, 1)
      [] FitsU(n, 2) /\ ~FitsU(n, 1)      -> <<major + 25>> \o LowBytes(n, 2)
      [] FitsU(n, 4) /\ ~FitsU(n, 2)      -> <<major + 26>> \o LowBytes(n, 4)
      [] ~FitsU(n, 4)                     -> <<major + 27>> \o n

CborInteger(n) == IF Negative(n) THEN CborHead(32, Complement(n)) ELSE CborHead(0, n)
CborText(s)    == CborHead(96, Size(Len(s))) \o s

\* An array, an object: the number of elements and what was written for them.
CborContainer(major, parts) == CborHead(major, Size(Len(parts))) \o Concat(parts)

RECURSIVE WriteCbor(_)
WriteCbor(v) ==
    CASE Kind(v) = "null"            -> <<246>>
      [] Kind(v) = "boolean"         -> IF Content(v) THEN <<245>> ELSE <<244>>
      [] Kind(v) = "number_integer"  -> CborInteger(Content(v))
      [] Kind(v) = "number_unsigned" -> CborHead(0, Content(v))
      [] Kind(v) = "number_float"    -> <<FloatPrefix.cbor>> \o Content(v)
      [] Kind(v) = "string"          -> CborText(Content(v))
      [] Kind(v) = "array"           ->
            CborContainer(128, Each(Content(v), WriteCbor))
      [] Kind(v) = "object"          ->
            CborContainer(160, Each(Keys(v), LAMBDA k : CborText(k) \o WriteCbor(Content(v)[k])))
      [] OTHER                       -> << >>

-----------------------------------------------------------------------------
(* write_msgpack                                                            *)

MsgpackUnsigned(n) ==
    CASE NoMore(n, 127)                   -> LowBytes(n, 1)
      [] FitsU(n, 1) /\ ~NoMore(n, 127)   -> <<204>> \o LowBytes(n, 1)
      [] FitsU(n, 2) /\ ~FitsU(n, 1)      -> <<205>> \o LowBytes(n, 2)
      [] FitsU(n, 4) /\ ~FitsU(n, 2)      -> <<206>> \o LowBytes(n, 4)
      [] ~FitsU(n, 4)                     -> <<207>> \o n

\* A negative number; from -32 on its one byte is the whole encoding.
MsgpackNegative(n) ==
    CASE NoMore(Complement(n), 31)                   -> LowBytes(n, 1)
      [] FitsS(n, 1) /\ ~NoMore(Complement(n), 31)   -> <<208>> \o LowBytes(n, 1)
      [] FitsS(n, 2) /\ ~FitsS(n, 1)                 -> <<209>> \o LowBytes(n, 2)
      [] FitsS(n, 4) /\ ~FitsS(n, 2)                 -> <<210>> \o LowBytes(n, 4)
      [] ~FitsS(n, 4)                                -> <<211>> \o n

MsgpackInteger(n) == IF Negative(n) THEN MsgpackNegative(n) ELSE MsgpackUnsigned(n)

\* The head of a string (with its form of one byte), of an array, of an object.
MsgpackHead(fix, most, one, two, n) ==
    CASE NoMore(n, most)                               -> <<fix + n[8]>>
      [] FitsU(n, 1) /\ ~NoMore(n, most) /\ one # 0    -> <<one>> \o LowBytes(n, 1)
      [] FitsU(n, 2) /\ ~NoMore(n, most) /\ (one = 0 \/ ~FitsU(n, 1)) -> <<two>> \o LowBytes(n, 2)
      [] FitsU(n, 4) /\ ~FitsU(n, 2)                   -> <<two + 1>> \o LowBytes(n, 4)
      [] ~FitsU(n, 4)                                  -> << >>

MsgpackText(s) == MsgpackHead(160, 31, 217, 218, Size(Len(s))) \o s

\* An array, an object: the types of their heads, and what was written for the
\* elements.
MsgpackContainer(fix, two, parts) ==
    MsgpackHead(fix, 15, 0, two, Size(Len(parts))) \o Concat(parts)

RECURSIVE WriteMsgpack(_)
WriteMsgpack(v) ==
    CASE Kind(v) = "null"            -> <<192>>
      [] Kind(v) = "boolean"         -> IF Content(v) THEN <<195>> ELSE <<194>>
      [] Kind(v) = "number_integer"  -> MsgpackInteger(Content(v))
      [] Kind(v) = "number_unsigned" -> MsgpackUnsigned(Content(v))
      [] Kind(v) = "number_float"    -> <<FloatPrefix.msgpack>> \o Content(v)
      [] Kind(v) = "string"          -> MsgpackText(Content(v))
      [] Kind(v) = "array"           ->
            MsgpackContainer(144, 220, Each(Content(v), WriteMsgpack))
      [] Kind(v) = "object"          ->
            MsgpackContainer(128, 222,
                Each(Keys(v), LAMBDA k : MsgpackText(k) \o WriteMsgpack(Content(v)[k])))
      [] OTHER                       -> << >>

-----------------------------------------------------------------------------
(* write_ubjson: the types are letters, 'U' 85, 'i' 105, 'I' 73, 'l' 108,  *)
(* 'L' 76, 'D' 68, 'd' 100, 'C' 67, 'S' 83, 'Z' 90, 'T' 84, 'F' 70, 'N' 78 *)

\* The widths of the integer types, and the one a number is written with.
UbjsonWidth == 85 :> 1 @@ 105 :> 1 @@ 73 :> 2 @@ 108 :> 4 @@ 76 :> 8
UbjsonSigned(n) ==
    CASE FitsS(n, 1)                                 -> 105
      [] FitsU(n, 1) /\ ~FitsS(n, 1)                 -> 85
      [] FitsS(n, 2) /\ ~FitsU(n, 1) /\ ~FitsS(n, 1) -> 73
      [] FitsS(n, 4) /\ ~FitsS(n, 2)                 -> 108
      [] ~FitsS(n, 4)                                -> 76

\* An unsigned number of more than 63 bits gets the type L; the writer throws.
UbjsonUnsigned(n) == IF Negative(n) THEN 76 ELSE UbjsonSigned(n)

NumberWithUbjsonPrefix(n, type, prefix) ==
    (IF prefix THEN <<type>> ELSE << >>) \o LowBytes(n, UbjsonWidth[type])

UbjsonText(s) == NumberWithUbjsonPrefix(Size(Len(s)), UbjsonUnsigned(Size(Len(s))), TRUE) \o s

\* ubjson_prefix
UbjsonPrefix(v) ==
    CASE Kind(v) = "null"            -> 90
      [] Kind(v) = "boolean"         -> IF Content(v) THEN 84 ELSE 70
      [] Kind(v) = "number_integer"  -> UbjsonSigned(Content(v))
      [] Kind(v) = "number_unsigned" -> UbjsonUnsigned(Content(v))
      [] Kind(v) = "number_float"    -> FloatPrefix.ubjson
      [] Kind(v) = "string"          -> 83
      [] Kind(v) = "array"           -> 91
      [] Kind(v) = "object"          -> 123
      [] OTHER                       -> 78

\* The elements of a container share a type, which is then written once.
SameType(parts) == parts # << >> /\ \A i \in DOMAIN parts : UbjsonPrefix(parts[i]) = UbjsonPrefix(parts[1])

RECURSIVE WriteUbjson(_, _, _, _)
WriteUbjson(v, useCount, useType, prefix) ==
    LET parts  == IF IsObject(v) THEN Each(Keys(v), LAMBDA k : Content(v)[k]) ELSE Content(v)
        typed  == useType /\ SameType(parts)
        Elem(i) == (IF IsObject(v) THEN UbjsonText(Keys(v)[i]) ELSE << >>)
                   \o WriteUbjson(parts[i], useCount, useType, ~typed)
        length == Size(Len(parts))
        open   == IF prefix THEN <<UbjsonPrefix(v)>> ELSE << >>
    IN  CASE Kind(v) \in {"null", "boolean"} -> open
          [] Kind(v) = "number_unsigned" /\ Negative(Content(v)) -> <<Thrown>>
          [] Kind(v) = "number_integer"
             \/ (Kind(v) = "number_unsigned" /\ ~Negative(Content(v))) ->
                NumberWithUbjsonPrefix(Content(v), UbjsonPrefix(v), prefix)
          [] Kind(v) = "number_float" -> open \o Content(v)
          [] Kind(v) = "string"       -> open \o UbjsonText(Content(v))
          [] IsStructured(v)          ->
                open \o (IF typed THEN <<36, UbjsonPrefix(parts[1])>> ELSE << >>)
                \o (IF useCount THEN <<35>> \o NumberWithUbjsonPrefix(length, UbjsonUnsigned(length), TRUE)
                    ELSE << >>)
                \o Concat([i \in DOMAIN parts |-> Elem(i)])
                \o (IF useCount THEN << >> ELSE IF IsObject(v) THEN <<125>> ELSE <<93>>)
          [] OTHER -> << >>
=============================================================================
