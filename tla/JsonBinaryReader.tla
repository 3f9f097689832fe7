-------------------------- MODULE JsonBinaryReader ---------------------------
(***************************************************************************)
(* The binary formats of the json library: binary_reader for CBOR,         *)
(* MessagePack and UBJSON.  A reader takes the input and the position of   *)
(* the next byte and returns what it read and the position after it, or    *)
(* Bad, where the code throws.  Numbers are eight bytes, as in module      *)
(* JsonBinaryWriter; a float read from four bytes keeps those bytes, and a *)
(* half-precision one is its sign and the arguments given to ldexp.        *)
(***************************************************************************)
EXTENDS JsonBinaryWriter

NoByte == -1
Bad == [v |-> Discarded, at |-> 0]
Good(v, at) == [v |-> v, at |-> at]

\* Bytes as a number of eight.
ZeroWide(b)   == [i \in 1 .. 8 |-> IF i <= 8 - Len(b) THEN 0 ELSE b[i + Len(b) - 8]]
SignWide(b)   == [i \in 1 .. 8 |-> IF i <= 8 - Len(b) THEN (IF b[1] >= 128 THEN 255 ELSE 0)
                                   ELSE b[i + Len(b) - 8]]

\* A length as a number: no input of the model is longer than TooLong.
TooLong == 16777216
Count(n) == IF FitsU(n, 3) THEN (n[6] * 65536) + (n[7] * 256) + n[8] ELSE TooLong

-----------------------------------------------------------------------------
(* Bytes, numbers and strings                                               *)

Byte(in, p) == IF p <= Len(in) THEN in[p] ELSE NoByte

\* get_number: w bytes.
GetNumber(in, p, w) ==
    IF p + w - 1 <= Len(in) THEN Good(SubSeq(in, p, p + w - 1), p + w) ELSE Bad

\* Fault: the end of the input ends the string.
ShortGetString(in, p, n) ==
    LET w == IF Len(in) - p + 1 < Count(n) THEN Len(in) - p + 1 ELSE Count(n)
    IN  Good(SubSeq(in, p, p + w - 1), p + w)

\* get_string with the length n of eight bytes.
GetString(in, p, n) == GetNumber(in, p, Count(n))

\* get_ignore_noop: the position of the next byte that is not 'N'.
RECURSIVE SkipNoop(_, _)
SkipNoop(in, p) == IF Byte(in, p) = 78 THEN SkipNoop(in, p + 1) ELSE p

\* The bytes that were read as a number of eight, or as a value.
ZeroWidened(r) == IF r.at = 0 THEN Bad ELSE Good(ZeroWide(r.v), r.at)
SignWidened(r) == IF r.at = 0 THEN Bad ELSE Good(SignWide(r.v), r.at)
AsUnsigned(r)  == IF r.at = 0 THEN Bad ELSE Good(Unsigned(ZeroWide(r.v)), r.at)
AsInteger(r)   == IF r.at = 0 THEN Bad ELSE Good(Integer(SignWide(r.v)), r.at)
AsFloat(r)     == IF r.at = 0 THEN Bad ELSE Good(Float(r.v), r.at)

\* The argument of a CBOR head at p: 0..23 in the byte, or 1, 2, 4, 8 bytes.
CborArgument(in, p) ==
    LET info == in[p] % 32
    IN  CASE info < 24       -> Good(Size(info), p + 1)
          [] info \in 24 .. 27 -> ZeroWidened(GetNumber(in, p + 1, 2 ^ (info - 24)))
          [] OTHER           -> Bad

\* get_cbor_string: chunks follow an indefinite length.
RECURSIVE CborString(_, _)
RECURSIVE CborChunks(_, _)
CborString(in, p) ==
    IF Byte(in, p) = 127 THEN CborChunks(in, p + 1)
    ELSE IF Byte(in, p) \in 96 .. 123
    THEN LET n == CborArgument(in, p)
         IN  IF n.at = 0 THEN Bad ELSE GetString(in, n.at, n.v)
    ELSE Bad
CborChunks(in, p) ==
    IF Byte(in, p) = 255 THEN Good(<< >>, p + 1)
    ELSE LET chunk == CborString(in, p)
             rest  == CborChunks(in, chunk.at)
         IN  IF chunk.at = 0 \/ rest.at = 0 THEN Bad ELSE Good(chunk.v \o rest.v, rest.at)

\* get_msgpack_string
MsgpackString(in, p) ==
    LET c == Byte(in, p)
        n == ZeroWidened(GetNumber(in, p + 1, 2 ^ (c - 217)))
    IN  CASE c \in 160 .. 191 -> GetString(in, p + 1, Size(c % 32))
          [] c \in 217 .. 219 -> IF n.at = 0 THEN Bad ELSE GetString(in, n.at, n.v)
          [] OTHER            -> Bad

\* An integer of UBJSON type t at p, and the string of that length: a negative
\* length gives the empty string.
UbjsonNumber(in, p, t) ==
    IF t \in DOMAIN UbjsonWidth
    THEN IF t = 85 THEN ZeroWidened(GetNumber(in, p, UbjsonWidth[t]))
         ELSE SignWidened(GetNumber(in, p, UbjsonWidth[t]))
    ELSE Bad

\* get_ubjson_string
UbjsonString(in, p) ==
    LET n == UbjsonNumber(in, p + 1, Byte(in, p))
    IN  IF n.at = 0 THEN Bad
        ELSE IF Negative(n.v) THEN Good(<< >>, n.at) ELSE GetString(in, n.at, n.v)

\* get_ubjson_size_type: the size, AllOnes (npos) if none is given, the type, 0
\* if none is given, and the position of current.
NoSize(at) == [size |-> AllOnes, type |-> 0, at |-> at]
SizeAt(in, p, type) ==
    LET q == SkipNoop(in, p)
        n == UbjsonNumber(in, q + 1, Byte(in, q))
    IN  IF n.at = 0 THEN NoSize(0) ELSE [size |-> n.v, type |-> type, at |-> n.at - 1]
UbjsonSizeType(in, p) ==
    LET q    == SkipNoop(in, p)
        hash == SkipNoop(in, q + 2)
    IN  CASE Byte(in, q) = 35 -> SizeAt(in, q + 1, 0)
          [] Byte(in, q) = 36 ->
                IF Byte(in, q + 1) # NoByte /\ Byte(in, hash) = 35
                THEN SizeAt(in, hash + 1, in[q + 1]) ELSE NoSize(0)
          [] OTHER            -> NoSize(q)

-----------------------------------------------------------------------------
(* Values.  In a container f is the format, and type the one type of its     *)
(* elements that UBJSON has given, or 0.                                     *)

RECURSIVE One(_, _, _, _)
RECURSIVE Items(_, _, _, _, _)
RECURSIVE Members(_, _, _, _, _)
RECURSIVE ItemsUntil(_, _, _, _)
RECURSIVE MembersUntil(_, _, _, _)

KeyAt(f, in, p) ==
    CASE f = "cbor"    -> CborString(in, p)
      [] f = "msgpack" -> MsgpackString(in, p)
      [] f = "ubjson"  -> UbjsonString(in, p)

\* A key and its value; the function of one member.
Member(k, x) == IF x.at = 0 THEN Bad ELSE Good([key \in {k} |-> x.v], x.at)
ValueOf(k, f, type, in) == IF k.at = 0 THEN Bad ELSE Member(k.v, One(f, type, in, k.at))
MemberAt(f, type, in, p) == ValueOf(KeyAt(f, in, p), f, type, in)

\* An element before the others, a member beside the others: of members with
\* the same key the last one counts.
Before(x, rest) == IF rest.at = 0 THEN Bad ELSE Good(<<x>> \o rest.v, rest.at)
Beside(x, rest) == IF rest.at = 0 THEN Bad ELSE Good(rest.v @@ x, rest.at)

\* k elements, k members.
ItemsAfter(x, f, type, in, k) ==
    IF x.at = 0 THEN Bad ELSE Before(x.v, Items(f, type, in, x.at, k))
Items(f, type, in, p, k) ==
    IF k = 0 THEN Good(<< >>, p) ELSE ItemsAfter(One(f, type, in, p), f, type, in, k - 1)
MembersAfter(x, f, type, in, k) ==
    IF x.at = 0 THEN Bad ELSE Beside(x.v, Members(f, type, in, x.at, k))
Members(f, type, in, p, k) ==
    IF k = 0 THEN Good(Content(EmptyObject), p)
    ELSE MembersAfter(MemberAt(f, type, in, p), f, type, in, k - 1)

\* The current byte after an element of a container that has no size.
Current(f, in, p) == IF f = "ubjson" THEN SkipNoop(in, p) ELSE p

\* Elements, members from the current byte at p until the byte stop.
ItemsUpTo(x, f, in, stop) ==
    IF x.at = 0 THEN Bad ELSE Before(x.v, ItemsUntil(f, in, Current(f, in, x.at), stop))
ItemsUntil(f, in, p, stop) ==
    IF Byte(in, p) = stop THEN Good(<< >>, p + 1) ELSE ItemsUpTo(One(f, 0, in, p), f, in, stop)
MembersUpTo(x, f, in, stop) ==
    IF x.at = 0 THEN Bad ELSE Beside(x.v, MembersUntil(f, in, Current(f, in, x.at), stop))
MembersUntil(f, in, p, stop) ==
    IF Byte(in, p) = stop THEN Good(Content(EmptyObject), p + 1)
    ELSE MembersUpTo(MemberAt(f, 0, in, p), f, in, stop)

AsArray(r)  == IF r.at = 0 THEN Bad ELSE Good(Array(r.v), r.at)
AsObject(r) == IF r.at = 0 THEN Bad ELSE Good(Object(r.v), r.at)
AsString(r) == IF r.at = 0 THEN Bad ELSE Good(String(r.v), r.at)

\* get_cbor_array, get_cbor_object with the length read at n.
CborArray(in, n) ==
    IF n.at = 0 THEN Bad
    ELSE IF n.v = AllOnes THEN AsArray(ItemsUntil("cbor", in, n.at, 255))
    ELSE AsArray(Items("cbor", 0, in, n.at, Count(n.v)))
CborObject(in, n) ==
    IF n.at = 0 THEN Bad
    ELSE IF n.v = AllOnes THEN AsObject(MembersUntil("cbor", in, n.at, 255))
    ELSE AsObject(Members("cbor", 0, in, n.at, Count(n.v)))

\* A half-precision number; the exponent 31 is infinity or not a number.
Half(b) ==
    LET exp  == (b[1] \div 4) % 32
        mant == ((b[1] % 4) * 256) + b[2]
    IN  <<b[1] \div 128>> \o
        (CASE exp = 0  -> <<mant, -24>>
           [] exp = 31 -> <<IF mant = 0 THEN 0 ELSE 1, 31>>
           [] OTHER    -> <<mant + 1024, exp - 25>>)

AsHalf(r) == IF r.at = 0 THEN Bad ELSE Good(Float(Half(r.v)), r.at)

\* parse_cbor_internal: the heads that carry no length.
CborSimple(c, in, p) ==
    CASE c \in {244, 245} -> Good(Boolean(c = 245), p + 1)
      [] c = 246          -> Good(Null, p + 1)
      [] c = 249          -> AsHalf(GetNumber(in, p + 1, 2))
      [] c = 250          -> AsFloat(GetNumber(in, p + 1, 4))
      [] c = 251          -> AsFloat(GetNumber(in, p + 1, 8))
      [] OTHER            -> Bad

\* The other ones; n is the argument of the head c at p.
CborOf(c, n, in, p) ==
    CASE c \in 0 .. 27                -> IF n.at = 0 THEN Bad ELSE Good(Unsigned(n.v), n.at)
      [] c \in 32 .. 59               -> IF n.at = 0 THEN Bad
                                         ELSE Good(Integer(Complement(n.v)), n.at)
      [] c \in 96 .. 123 \cup {127}   -> AsString(CborString(in, p))
      [] c \in 128 .. 155 \cup {159}  -> CborArray(in, n)
      [] c \in 160 .. 187 \cup {191}  -> CborObject(in, n)
      [] OTHER                        -> CborSimple(c, in, p)
Cbor(in, p) ==
    CborOf(Byte(in, p),
           IF Byte(in, p) % 32 = 31 THEN Good(AllOnes, p + 1) ELSE CborArgument(in, p), in, p)

\* get_msgpack_array, get_msgpack_object with the length read at n.
MsgpackArray(in, n) ==
    IF n.at = 0 THEN Bad ELSE AsArray(Items("msgpack", 0, in, n.at, Count(n.v)))
MsgpackObject(in, n) ==
    IF n.at = 0 THEN Bad ELSE AsObject(Members("msgpack", 0, in, n.at, Count(n.v)))

\* parse_msgpack_internal: the length is in the byte c, follows it, or there
\* is none.
MsgpackFixed(c, in, p) ==
    CASE c \in 128 .. 143 -> MsgpackObject(in, Good(Size(c % 16), p + 1))
      [] c \in 144 .. 159 -> MsgpackArray(in, Good(Size(c % 16), p + 1))
      [] c \in 160 .. 191 -> AsString(MsgpackString(in, p))
MsgpackSized(c, in, p) ==
    LET n(w) == ZeroWidened(GetNumber(in, p + 1, w))
    IN  CASE c \in 217 .. 219  -> AsString(MsgpackString(in, p))
          [] c \in {220, 221}  -> MsgpackArray(in, n(2 * (c - 219)))
          [] c \in {222, 223}  -> MsgpackObject(in, n(2 * (c - 221)))
MsgpackScalar(c, in, p) ==
    CASE c = 192          -> Good(Null, p + 1)
      [] c \in {194, 195} -> Good(Boolean(c = 195), p + 1)
      [] c = 202          -> AsFloat(GetNumber(in, p + 1, 4))
      [] c = 203          -> AsFloat(GetNumber(in, p + 1, 8))
      [] c \in 204 .. 207 -> AsUnsigned(GetNumber(in, p + 1, 2 ^ (c - 204)))
      [] c \in 208 .. 211 -> AsInteger(GetNumber(in, p + 1, 2 ^ (c - 208)))
      [] OTHER            -> Bad
NegativeFixint(c, p) == Good(Integer(SignWide(<<c>>)), p + 1)
MsgpackOf(c, in, p) ==
    CASE c \in 0 .. 127   -> Good(Unsigned(Size(c)), p + 1)
      [] c \in 128 .. 191 -> MsgpackFixed(c, in, p)
      [] c \in 217 .. 223 -> MsgpackSized(c, in, p)
      [] c \in 224 .. 255 -> NegativeFixint(c, p)
      [] OTHER            -> MsgpackScalar(c, in, p)
Msgpack(in, p) == MsgpackOf(Byte(in, p), in, p)

\* get_ubjson_array, get_ubjson_object: elements of type 'N' take no bytes.
UbjsonItems(s, in) ==
    CASE s.at = 0                     -> Bad
      [] s.at # 0 /\ s.size = AllOnes -> AsArray(ItemsUntil("ubjson", in, s.at, 93))
      [] s.at # 0 /\ s.size # AllOnes ->
            IF s.type = 78 THEN Good(Array(<< >>), s.at + 1)
            ELSE AsArray(Items("ubjson", s.type, in, s.at + 1, Count(s.size)))
UbjsonMembers(s, in) ==
    CASE s.at = 0                     -> Bad
      [] s.at # 0 /\ s.size = AllOnes -> AsObject(MembersUntil("ubjson", in, s.at, 125))
      [] s.at # 0 /\ s.size # AllOnes ->
            AsObject(Members("ubjson", s.type, in, s.at + 1, Count(s.size)))
UbjsonArray(in, p)  == UbjsonItems(UbjsonSizeType(in, p), in)
UbjsonObject(in, p) == UbjsonMembers(UbjsonSizeType(in, p), in)

\* get_ubjson_value of type c, whose bytes start at p
Ubjson(c, in, p) ==
    CASE c \in {84, 70}  -> Good(Boolean(c = 84), p)
      [] c = 90          -> Good(Null, p)
      [] c = 85          -> AsUnsigned(GetNumber(in, p, 1))
      [] c \in DOMAIN UbjsonWidth \ {85} ->
            AsInteger(GetNumber(in, p, UbjsonWidth[c]))
      [] c = 100         -> AsFloat(GetNumber(in, p, 4))
      [] c = 68          -> AsFloat(GetNumber(in, p, 8))
      [] c = 67          -> IF Byte(in, p) \in 0 .. 127 THEN Good(String(<<in[p]>>), p + 1) ELSE Bad
      [] c = 83          -> AsString(UbjsonString(in, p))
      [] c = 91          -> UbjsonArray(in, p)
      [] c = 123         -> UbjsonObject(in, p)
      [] OTHER           -> Bad

\* parse_ubjson_internal: the type is the next byte that is not 'N'.
UbjsonNext(in, p) == Ubjson(Byte(in, p), in, p + 1)

\* The next value; type is its UBJSON type if that is known.
One(f, type, in, p) ==
    CASE f = "cbor"    -> Cbor(in, p)
      [] f = "msgpack" -> Msgpack(in, p)
      [] f = "ubjson"  -> IF type # 0 THEN Ubjson(type, in, p)
                          ELSE UbjsonNext(in, SkipNoop(in, p))

\* sax_parse in strict mode: nothing may follow the value, but UBJSON ignores
\* 'N'.  The value, or Discarded where the code throws.
Finished(f, in, r) == r.at # 0 /\ Byte(in, Current(f, in, r.at)) = NoByte
Whole(f, in, r) == IF Finished(f, in, r) THEN r.v ELSE Discarded
SaxParse(f, in) == Whole(f, in, One(f, 0, in, 1))
=============================================================================
