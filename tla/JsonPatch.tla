----------------------------- MODULE JsonPatch ------------------------------
(***************************************************************************)
(* JSON patches of the json library: patch() applies operations to a copy  *)
(* of a value, diff() computes the operations that lead from one value to  *)
(* another.  An operation is a record of its members; a member that is     *)
(* missing or of the wrong type is NullPtr or Discarded.                   *)
(***************************************************************************)
EXTENDS JsonPointer

\* operator==: integers are compared as 64-bit patterns, signed or not.
RECURSIVE Same(_, _)
Same(v, w) ==
    \/ /\ IsStructured(v) /\ Kind(v) = Kind(w)
       /\ DOMAIN Content(v) = DOMAIN Content(w)
       /\ \A i \in DOMAIN Content(v) : Same(Content(v)[i], Content(w)[i])
    \/ /\ ~IsStructured(v) /\ Kind(v) = Kind(w) /\ v = w
    \/ /\ {Kind(v), Kind(w)} = {"number_integer", "number_unsigned"}
       /\ Content(v) = Content(w)

-----------------------------------------------------------------------------
(* patch()                                                                  *)

\* is_root, top and pop_back of a pointer that is given by its tokens: pop_back
\* leaves the pointer to the parent and returns the last token.
IsRoot(tokens)  == tokens = << >>
Top(tokens)     == <<tokens[1]>>
PopBack(tokens) == [left |-> Front(tokens), last |-> Last(tokens)]

\* insert() of vector: w before the element at index i.
Inserted(s, i, w) == SubSeq(s, 1, i) \o <<w>> \o SubSeq(s, i + 1, Len(s))

\* operation_add: the parent is made if it is missing, its first token must
\* exist.  (A parent that is no container and not null fails an assertion.)
AddLast(v, pos, parent, last, w) ==
    LET index == IF last = <<45>> THEN Len(Content(parent)) ELSE ArrayIndex(last)
    IN  CASE IsObject(parent) -> Put(v, pos, WithKey(parent, last, w))
          [] Kind(parent) = "null" -> Put(v, pos, WithKey(EmptyObject, last, w))
          [] IsArray(parent) ->
                IF index \in 0 .. Len(Content(parent))
                THEN Put(v, pos, Array(Inserted(Content(parent), index, w)))
                ELSE Failed
          [] OTHER -> Failed
AddAt(place, last, w) ==
    IF place.v = Failed THEN Failed
    ELSE AddLast(place.v, place.pos, At(place.v, place.pos), last, w)
OperationAdd(v, tokens, w) ==
    IF IsRoot(tokens) THEN w
    ELSE IF Len(tokens) > 1 /\ GetChecked(v, Top(tokens)) = NullPtr THEN Failed
    ELSE AddAt(Walk(FALSE, v, PopBack(tokens).left), PopBack(tokens).last, w)

\* operation_remove: the place must exist; in a parent that is no container
\* nothing is removed.
OperationRemove(v, tokens) ==
    LET pos    == GetChecked(v, PopBack(tokens).left)
        parent == At(v, pos)
        last   == PopBack(tokens).last
        index  == ArrayIndex(last)
    IN  IF IsRoot(tokens) THEN Failed
        ELSE IF pos = NullPtr THEN Failed
        ELSE CASE IsObject(parent) ->
                     IF last \in DOMAIN Content(parent)
                     THEN Put(v, pos, WithoutKey(parent, last)) ELSE Failed
               [] IsArray(parent) ->
                     IF index \in 0 .. Len(Content(parent)) - 1
                     THEN Put(v, pos, Array(RemoveAt(Content(parent), index + 1))) ELSE Failed
               [] OTHER -> v

\* The value at the tokens, or Failed.
ValueAt(v, tokens) ==
    IF tokens = NullPtr THEN Failed
    ELSE IF GetChecked(v, tokens) = NullPtr THEN Failed ELSE At(v, GetChecked(v, tokens))

\* replace, move, copy and test need a value at their path or origin.
OperationReplace(v, tokens, w) ==
    IF GetChecked(v, tokens) = NullPtr THEN Failed ELSE Put(v, GetChecked(v, tokens), w)
MoveTo(rest, tokens, w) ==
    IF rest = Failed \/ w = Failed THEN Failed ELSE OperationAdd(rest, tokens, w)
OperationMove(v, tokens, from) ==
    IF from = NullPtr THEN Failed ELSE MoveTo(OperationRemove(v, from), tokens, ValueAt(v, from))
OperationCopy(v, tokens, from) == MoveTo(v, tokens, ValueAt(v, from))
OperationTest(v, tokens, w) ==
    IF ValueAt(v, tokens) # Failed /\ Same(ValueAt(v, tokens), w) THEN v ELSE Failed

\* One operation of a patch.
NeedsValue == {"add", "replace", "test"}
NeedsFrom  == {"move", "copy"}
ApplyOperation(v, o) ==
    LET tokens == IF o.path = NullPtr THEN NullPtr ELSE Split(o.path)
    IN  IF \/ tokens = NullPtr
           \/ o.op \in NeedsValue /\ o.value = Discarded
           \/ o.op \in NeedsFrom /\ o.from = NullPtr
        THEN Failed
        ELSE CASE o.op = "add"     -> OperationAdd(v, tokens, o.value)
               [] o.op = "remove"  -> OperationRemove(v, tokens)
               [] o.op = "replace" -> OperationReplace(v, tokens, o.value)
               [] o.op = "move"    -> OperationMove(v, tokens, Split(o.from))
               [] o.op = "copy"    -> OperationCopy(v, tokens, Split(o.from))
               [] o.op = "test"    -> OperationTest(v, tokens, o.value)
               [] OTHER            -> Failed

-----------------------------------------------------------------------------
(* diff()                                                                   *)

Op(op, path, value) == [op |-> op, path |-> path, value |-> value, from |-> NullPtr]
Child(path, name)   == path \o <<47>> \o name
Joining(parts)      == FoldLeft(LAMBDA all, s : all \o s, << >>, parts)

\* Fault: elements are removed from the front, where indices shift.
ForwardRemovals(path, first, last) ==
    [i \in 1 .. last - first + 1 |->
        Op("remove", Child(path, DumpInteger(first + i - 2)), Discarded)]

\* The operations for elements first .. last of one side of an array.
Removals(path, first, last) ==
    [i \in 1 .. last - first + 1 |-> Op("remove", Child(path, DumpInteger(last - i)), Discarded)]
Additions(path, s, first) ==
    [i \in 1 .. Len(s) - first + 1 |->
        Op("add", Child(path, DumpInteger(first + i - 2)), s[first + i - 1])]

RECURSIVE Diff(_, _, _)
\* Arrays: the common elements, then the end of the longer one.
DiffArray(s, t, path) ==
    LET common == IF Len(s) < Len(t) THEN Len(s) ELSE Len(t)
    IN  Joining([i \in 1 .. common |-> Diff(s[i], t[i], Child(path, DumpInteger(i - 1)))])
        \o Removals(path, common + 1, Len(s)) \o Additions(path, t, common + 1)

\* Objects: the members of the source, then the ones only the target has.
DiffObject(source, target, path) ==
    LET Path(k) == Child(path, EscapeToken(k))
        Old(k)  == IF k \in DOMAIN Content(target)
                   THEN Diff(Content(source)[k], Content(target)[k], Path(k))
                   ELSE <<Op("remove", Path(k), Discarded)>>
        New(k)  == IF k \in DOMAIN Content(source) THEN << >>
                   ELSE <<Op("add", Path(k), Content(target)[k])>>
    IN  Joining([i \in DOMAIN Keys(source) |-> Old(Keys(source)[i])])
        \o Joining([i \in DOMAIN Keys(target) |-> New(Keys(target)[i])])

Diff(source, target, path) ==
    IF Same(source, target) THEN << >>
    ELSE IF Kind(source) # Kind(target) \/ ~IsStructured(source)
    THEN <<Op("replace", path, target)>>
    ELSE IF IsArray(source) THEN DiffArray(Content(source), Content(target), path)
    ELSE DiffObject(source, target, path)
=============================================================================
