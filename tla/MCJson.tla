------------------------------- MODULE MCJson --------------------------------
(* Json for TLC: texts to read, values to write, to edit and to send.        *)
EXTENDS Json

-----------------------------------------------------------------------------
(* Texts                                                                    *)

\* Inputs of up to n bytes of an alphabet; inputs that begin as given.
AnyOf(alphabet, n) == [bytes |-> [i \in 1 .. n |-> alphabet], whole |-> FALSE]
Begins(choices) == [bytes |-> choices, whole |-> FALSE]

\* Structure: [ ] { } , : " a 1 and the end.
Structures == AnyOf({91, 93, 123, 125, 44, 58, 34, 97, 49}, 5)
ObjectText == Begins(<<{123}, {34}, {97}, {34}, {58}, {91, 123, 49}, {93, 125, 49, 34, 44},
                     {44, 125, 93, 97}, {34, 49, 93, 125}, {97, 98, 34}, {34, 58}, {58, 44}, {49, 91}, {125, 93}, {125}>>)

\* Numbers: - 0 1 . e + and the end.
NumberText == AnyOf({45, 48, 49, 46, 101, 43}, 6)

\* Literals and byte order marks, right and wrong.
LiteralText == Begins(<<{116, 102, 110, 32}, {114, 97, 117, 116}, {117, 108, 114}, {101, 108, 115, 117},
                       {101, 32, 0}, {32, 0, 49}>>)
BomText == Begins(<<{239, 187, 49}, {187, 191, 49}, {191, 187, 49}, {49, 0, 32}, {0, 49}>>)

\* Strings: every class of first byte and the edges of what may follow it.
Utf8Text == Begins(<<{34}, {31, 127, 128, 193, 194, 223, 224, 225, 236, 237, 238, 240, 241, 244, 245},
                    {34, 127, 128, 143, 144, 159, 160, 191, 192}, {34, 127, 128, 191, 192},
                    {34, 128, 191}, {34}>>)
EscapeText == Begins(<<{34}, {92}, {34, 92, 47, 98, 102, 110, 114, 116, 97, 117}, {48, 68, 100, 71},
                     {48, 55, 56, 67, 70}, {48, 70}, {48, 102},
                     {34, 92}, {117, 110}, {68}, {66, 67, 70}, {48, 70}, {48, 102}, {34}>>)

TextShapes == {Structures, ObjectText, NumberText, LiteralText, BomText, Utf8Text, EscapeText}

\* How an input may go on: what is left of a literal, of a character or of a
\* number, the end of a string or a member, and the ends of containers.
Halves  == {<<128, 34>>, <<160, 128, 34>>, <<144, 128, 128, 34>>, <<48, 34>>, <<48, 48, 48, 34>>,
            <<92, 117, 68, 67, 48, 48, 34>>, <<114, 117, 101>>, <<108, 115, 101>>, <<108, 108>>}
Ends    == {<< >>, <<93>>, <<125>>, <<93, 93>>, <<93, 125>>, <<125, 93>>}
AnyTail == {i \o e : i \in {<< >>, <<49>>}, e \in Ends}
           \cup {<<34>>, <<34, 93>>, <<34, 58, 49, 125>>, <<58, 49, 125>>} \cup Halves

-----------------------------------------------------------------------------
\* Values to write: the edges of the number types, strings with characters of
\* every kind and length around the size of the buffer, nested containers.
a == <<97>>
Euro  == <<226, 130, 172>>
Clef  == <<240, 157, 132, 158>>
Wild  == <<8, 9, 10, 12, 13, 34, 92, 31, 127>> \o Euro \o Clef \o <<195, 188>>
Many(s, n) == FoldLeft(LAMBDA all, i : all \o s, << >>, [i \in 1 .. n |-> i])
Samples ==
    {Null, Boolean(TRUE), Boolean(FALSE), Unsigned(0), Unsigned(UnsignedMax), Integer(0),
     Integer(1), Integer(-NegativeMax), Float(<<49, 46, 53>>), Float(<<49, 101, 43, 50>>),
     String(<< >>), String(Wild), String(Many(Clef, 3)), String(Many(Euro, 5)),
     String(Many(<<31>>, 4)), Array(<< >>), EmptyObject,
     Array(<<Null, Array(<< >>), Array(<<Boolean(TRUE), EmptyObject>>)>>),
     Object([k \in {a, << >>, Wild} |-> Array(<<Unsigned(1), Integer(-1)>>)]),
     Object([k \in {a, a \o a} |-> Object([x \in {a} |-> String(k)])])}
TextDocuments ==
    {[value |-> v, ascii |-> b, step |-> n] : v \in Samples, b \in BOOLEAN, n \in {Compact, 0, 3}}

-----------------------------------------------------------------------------
(* Values                                                                   *)

U(n) == Unsigned(Size(n))
I(n) == Integer(Size(n))
Neg(n) == Integer(Complement(Size(n - 1)))

\* Keys: a, 0, the empty one, and some that have to be escaped.
z == <<48>>
Odd1 == <<126, 49>>
Odd2 == <<47, 97, 126>>

One1 == Object([k \in {a} |-> U(1)])
EditSources ==
    {Null, U(1), I(1), Array(<< >>), Array(<<U(1), U(2), U(3), String(a)>>),
     Array(<<Array(<<U(1), U(2)>>), One1>>), One1,
     Object([k \in {a, <<98>>} |-> Array(<<U(1), Null>>)]),
     Object([k \in {z, a} |-> U(1)]),
     Object([k \in {a, Odd1, Odd2, << >>} |-> One1]),
     Array([i \in 1 .. 12 |-> U(i)])}

Path(s) == <<47>> \o s
Edit1(op, path, val, from) == [op |-> op, path |-> path, value |-> val, from |-> from]
PatchPaths ==
    {<< >>, Path(a), Path(z), Path(<<45>>), Path(<<50>>), Path(<< >>),
     Path(EscapeToken(Odd1)), Path(EscapeToken(Odd2)), Path(a) \o Path(z), Path(z) \o Path(a), Path(a) \o Path(a)}
PatchEdits ==
    {Edit1("add", p, v, NullPtr) : p \in PatchPaths, v \in {I(7), One1, Array(<<Null>>)}}
    \cup {Edit1("remove", p, Discarded, NullPtr) : p \in PatchPaths}
    \cup {Edit1("replace", p, v, NullPtr) : p \in PatchPaths, v \in {Null, EmptyObject}}
    \cup {Edit1(o, p, Discarded, f) : o \in {"move", "copy"}, p \in PatchPaths,
                                      f \in {Path(a), Path(z), Path(a) \o Path(z)}}
    \cup {Edit1("test", p, U(1), NullPtr) : p \in PatchPaths}
    \cup {Edit1("add", a, Null, NullPtr), Edit1("add", NullPtr, Null, NullPtr),
          Edit1("copy", Path(a), Null, NullPtr), Edit1("drop", << >>, Null, NullPtr)}

-----------------------------------------------------------------------------
Text(n) == String([i \in 1 .. n |-> 97])
Numbers ==
    {U(n) : n \in {0, 23, 24, 127, 128, 255, 256, 32767, 32768, 65535, 65536, 2147483647}}
    \cup {Unsigned(<<0, 0, 0, 0, 128, 0, 0, 0>>), Unsigned(<<0, 0, 0, 0, 255, 255, 255, 255>>),
          Unsigned(<<0, 0, 0, 1, 0, 0, 0, 0>>), Unsigned(<<127, 255, 255, 255, 255, 255, 255, 255>>),
          Unsigned(<<128, 0, 0, 0, 0, 0, 0, 0>>), Unsigned(AllOnes)}
    \cup {I(n) : n \in {0, 24, 127, 128, 255, 256, 32768, 65536}}
    \cup {Integer(<<0, 0, 0, 0, 128, 0, 0, 0>>), Integer(<<127, 255, 255, 255, 255, 255, 255, 255>>)}
    \cup {Neg(n) : n \in {1, 24, 25, 32, 33, 128, 129, 256, 257, 32768, 32769, 65536, 65537, 2147483647}}
    \cup {Integer(<<255, 255, 255, 255, 128, 0, 0, 0>>), Integer(<<255, 255, 255, 255, 127, 255, 255, 255>>),
          Integer(<<255, 255, 255, 254, 255, 255, 255, 255>>), Integer(<<128, 0, 0, 0, 0, 0, 0, 0>>)}
Scalars ==
    Numbers \cup {Null, Boolean(TRUE), Boolean(FALSE), Float(<<63, 248, 0, 0, 0, 0, 0, 0>>)}
            \cup {Text(n) : n \in {0, 1, 23, 24, 31, 32, 127, 128, 255, 256}}
Containers ==
    {Array([i \in 1 .. n |-> U(1)]) : n \in {0, 1, 15, 16, 23, 24}}
    \cup {Object([k \in {[j \in 1 .. i |-> 97] : i \in 1 .. n} |-> Neg(200)]) : n \in {0, 1, 16, 24}}
    \cup {Array(<<v, w>>) : v, w \in {Null, U(1), U(128), Neg(1), Text(1), Boolean(TRUE), One1, Array(<< >>)}}
    \cup {Object([k \in {a, << >>} |-> v]) : v \in {Null, U(128), Text(2), One1, Array(<<Array(<<Null>>)>>)}}
AllLetters == Scalars \cup Containers
=============================================================================
