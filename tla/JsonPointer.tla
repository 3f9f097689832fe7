---------------------------- MODULE JsonPointer -----------------------------
(***************************************************************************)
(* JSON pointers: class json_pointer of the json library splits a string   *)
(* of escaped reference tokens, resolves them in a value, creates the      *)
(* places they name, and flattens a value to its pointers and back.        *)
(*                                                                         *)
(* Characters: '/' 47, '~' 126, '-' 45, '+' 43, digits 48 .. 57.  Failed,  *)
(* or NullPtr for a position or a list of tokens, stands for an exception  *)
(* and for the abort of an assertion.                                      *)
(***************************************************************************)
EXTENDS JsonValue

Failed == <<"exception">>

-----------------------------------------------------------------------------
(* Reference tokens                                                         *)

\* replace_substring: from left to right; what was put in is not searched.
RECURSIVE ReplaceSubstring(_, _, _)
ReplaceSubstring(s, f, t) ==
    IF Len(s) < Len(f) THEN s
    ELSE IF SubSeq(s, 1, Len(f)) = f
    THEN t \o ReplaceSubstring(SubSeq(s, Len(f) + 1, Len(s)), f, t)
    ELSE <<s[1]>> \o ReplaceSubstring(Tail(s), f, t)

EscapeToken(s) == ReplaceSubstring(ReplaceSubstring(s, <<126>>, <<126, 48>>), <<47>>, <<126, 49>>)

\* Fault: ~0 is replaced first, so that ~01 becomes a slash.
SwappedUnescape(s) ==
    ReplaceSubstring(ReplaceSubstring(s, <<126, 48>>, <<126>>), <<126, 49>>, <<47>>)

Unescape(s) == ReplaceSubstring(ReplaceSubstring(s, <<126, 49>>, <<47>>), <<126, 48>>, <<126>>)

\* Every ~ is followed by 0 or 1.
WellEscaped(s) == \A i \in DOMAIN s : s[i] = 126 => i < Len(s) /\ s[i + 1] \in {48, 49}

\* split, for a string that begins with a slash: the tokens between slashes.
SplitSlashes(s) ==
    LET slashes == SelectSeq([i \in DOMAIN s |-> i], LAMBDA i : s[i] = 47)
        End(k)  == IF k = Len(slashes) THEN Len(s) ELSE slashes[k + 1] - 1
    IN  [k \in DOMAIN slashes |-> SubSeq(s, slashes[k] + 1, End(k))]
Split(s) ==
    IF s = << >> THEN << >>
    ELSE IF s[1] = 47 /\ \A k \in DOMAIN SplitSlashes(s) : WellEscaped(SplitSlashes(s)[k])
    THEN [k \in DOMAIN SplitSlashes(s) |-> Unescape(SplitSlashes(s)[k])]
    ELSE NullPtr

IsDigits(s) == \A i \in DOMAIN s : s[i] \in 48 .. 57
ToNumber(s) == FoldLeft(LAMBDA n, c : 10 * n + c - 48, 0, s)

\* array_index: stoi accepts a sign; a negative index becomes a huge one.
\* (NoIndex is an exception.  White space, which stoi skips, and numbers of ten
\* digits, which it refuses, are not modelled.)
NoIndex == -1
Huge    == 1000000000
ArrayIndex(t) ==
    LET signed == t # << >> /\ t[1] \in {43, 45}
        digits == IF signed THEN Tail(t) ELSE t
    IN  IF digits = << >> \/ ~IsDigits(digits) THEN NoIndex
        ELSE IF signed /\ t[1] = 45 /\ ToNumber(digits) # 0 THEN Huge ELSE ToNumber(digits)

LeadingZero(t) == Len(t) > 1 /\ t[1] = 48

-----------------------------------------------------------------------------
(* Resolving                                                                *)

\* get_checked: the position of the tokens in v, or NullPtr.
RECURSIVE GetChecked(_, _)
GetChecked(v, tokens) ==
    LET t    == Head(tokens)
        step == CASE IsObject(v) -> IF t \in DOMAIN Content(v) THEN <<t>> ELSE NullPtr
                  [] IsArray(v)  -> IF t # <<45>> /\ ~LeadingZero(t)
                                       /\ ArrayIndex(t) \in 0 .. Len(Content(v)) - 1
                                    THEN <<ArrayIndex(t) + 1>> ELSE NullPtr
                  [] OTHER       -> NullPtr
        rest == GetChecked(Content(v)[Head(step)], Tail(tokens))
    IN  IF tokens = << >> THEN << >>
        ELSE IF step = NullPtr \/ rest = NullPtr THEN NullPtr ELSE step \o rest

\* array operator[]: null fills the array up to index i.
Filled(s, i) == [k \in 1 .. (IF i < Len(s) THEN Len(s) ELSE i + 1) |-> IF k <= Len(s) THEN s[k] ELSE Null]

\* One token of a walk that creates what is missing in the container w: w as
\* it is then, and the step into it.
Enter(w, t, index) ==
    CASE IsObject(w) ->
            [v |-> IF t \in DOMAIN Content(w) THEN w ELSE WithKey(w, t, Null), step |-> <<t>>]
      [] IsArray(w) /\ index \in 0 .. Huge - 1 ->
            [v |-> Array(Filled(Content(w), index)), step |-> <<index + 1>>]
      [] OTHER -> [v |-> Failed, step |-> NullPtr]

\* get_unchecked: null becomes an array for a token of digits or -, else an
\* object; - is the place after the last element.
Uncheck(v, t) ==
    LET w == IF Kind(v) # "null" THEN v
             ELSE IF IsDigits(t) \/ t = <<45>> THEN Array(<< >>) ELSE EmptyObject
    IN  Enter(w, t, IF t = <<45>> /\ IsArray(w) THEN Len(Content(w))
                    ELSE IF LeadingZero(t) THEN NoIndex ELSE ArrayIndex(t))

\* get_and_create: null becomes an array for the token 0, else an object.
CreateStep(v, t) ==
    LET w == IF Kind(v) # "null" THEN v ELSE IF t = <<48>> THEN Array(<< >>) ELSE EmptyObject
    IN  Enter(w, t, ArrayIndex(t))

\* The walk: the value with every place of the tokens, and the last place.
RECURSIVE Walk(_, _, _)
Walk(create, v, tokens) ==
    LET here == IF create THEN CreateStep(v, Head(tokens)) ELSE Uncheck(v, Head(tokens))
        next == Walk(create, At(here.v, here.step), Tail(tokens))
    IN  IF tokens = << >> THEN [v |-> v, pos |-> << >>]
        ELSE IF here.v = Failed \/ next.v = Failed THEN [v |-> Failed, pos |-> << >>]
        ELSE [v |-> Put(here.v, here.step, next.v), pos |-> here.step \o next.pos]

-----------------------------------------------------------------------------
(* flatten and unflatten                                                    *)

RECURSIVE Flatten(_, _)
Flatten(path, v) ==
    LET parts == DOMAIN Content(v)
        Name(i) == IF IsArray(v) THEN DumpInteger(i - 1) ELSE EscapeToken(i)
        below == {Flatten(path \o <<47>> \o Name(i), Content(v)[i]) : i \in parts}
    IN  IF ~IsStructured(v) THEN path :> v
        ELSE IF parts = {} THEN path :> Null
        ELSE [p \in UNION {DOMAIN f : f \in below} |->
                 (CHOOSE f \in below : p \in DOMAIN f)[p]]

\* unflatten of an object whose members are primitive: its keys in their order.
UnflattenMember(v, key, w) ==
    LET tokens == Split(key)
        place  == Walk(TRUE, v, tokens)
    IN  IF v = Failed \/ tokens = NullPtr THEN Failed
        ELSE IF place.v = Failed THEN Failed ELSE Put(place.v, place.pos, w)
Unflatten(v) ==
    FoldLeft(LAMBDA r, k : UnflattenMember(r, k, Content(v)[k]), Null, Keys(v))
=============================================================================
