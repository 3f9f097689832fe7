----------------------------- MODULE JsonValue ------------------------------
(***************************************************************************)
(* The values of the json library the configuration is read with           *)
(* (thirdparty/nlohmann/json.hpp).  A value is a tuple of its type and its *)
(* content.  Strings and keys are sequences of bytes, objects are functions *)
(* on their keys, and a floating-point number is the sequence of characters *)
(* it is written with.  Positions inside a value, the pointers of the code, *)
(* are sequences of indices and keys.                                      *)
(***************************************************************************)
EXTENDS Integers, Sequences, FiniteSets, SequencesExt

CONSTANT NullPtr   \* no position, nullptr

Position == Seq(Nat \cup Seq(Int))

ASSUME NullPtrAssumption == NullPtr \notin Position

Null        == <<"null">>
Discarded   == <<"discarded">>
Boolean(b)  == <<"boolean", b>>
Integer(n)  == <<"number_integer", n>>
Unsigned(n) == <<"number_unsigned", n>>
Float(s)    == <<"number_float", s>>
String(s)   == <<"string", s>>
Array(s)    == <<"array", s>>
Object(f)   == <<"object", f>>

EmptyObject == Object([k \in {} |-> Null])

Kind(v)         == v[1]
Content(v)      == v[2]
IsArray(v)      == Kind(v) = "array"
IsObject(v)     == Kind(v) = "object"
IsStructured(v) == IsArray(v) \/ IsObject(v)

\* Keys are ordered byte by byte, as std::map orders std::string.
KeyLess(a, b) ==
    \E i \in 1 .. Len(b) :
        /\ \A k \in 1 .. i - 1 : k <= Len(a) /\ a[k] = b[k]
        /\ i > Len(a) \/ a[i] < b[i]

\* The keys of an object in their order.
Keys(v) ==
    LET keys == DOMAIN Content(v)
    IN  [i \in 1 .. Cardinality(keys) |->
            CHOOSE k \in keys : Cardinality({x \in keys : KeyLess(x, k)}) = i - 1]

-----------------------------------------------------------------------------
(* Positions                                                                *)

\* The value at position p of v: a path is followed from the root.
At(v, p) ==
    LET walk[n \in 0 .. Len(p)] == IF n = 0 THEN v ELSE Content(walk[n - 1])[p[n]]
    IN  walk[Len(p)]

\* The position p exists in v.
Exists(v, p) ==
    \A n \in 1 .. Len(p) :
        LET into == At(v, SubSeq(p, 1, n - 1))
        IN  IsStructured(into) /\ p[n] \in DOMAIN Content(into)

\* v with w at position p: from the inside out, the containers on the path.
Put(v, p, w) ==
    LET put[n \in 0 .. Len(p)] ==
            IF n = 0 THEN w
            ELSE LET into == At(v, SubSeq(p, 1, Len(p) - n))
                 IN  <<Kind(into), [Content(into) EXCEPT ![p[Len(p) - n + 1]] = put[n - 1]]>>
    IN  put[Len(p)]

\* object_t::operator[]: the value under key k, new or replaced, is w.
WithKey(v, k, w) ==
    Object([x \in DOMAIN Content(v) \cup {k} |-> IF x = k THEN w ELSE Content(v)[x]])

WithoutKey(v, k) == Object([x \in DOMAIN Content(v) \ {k} |-> Content(v)[x]])

-----------------------------------------------------------------------------
(* Numbers                                                                  *)

\* dump_integer: digits from the last to the first, then reversed.
DigitsOf[n \in Nat] == IF n = 0 THEN << >> ELSE Append(DigitsOf[n \div 10], 48 + (n % 10))
DumpInteger(n) ==
    IF n = 0 THEN <<48>> ELSE IF n < 0 THEN <<45>> \o DigitsOf[-n] ELSE DigitsOf[n]
=============================================================================
