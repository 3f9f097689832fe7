----------------------------- MODULE JsonValues -----------------------------
(***************************************************************************)
(* What can be done with a value of the json library: it is edited by      *)
(* patch operations, turned into another value by the patch that diff()    *)
(* computes, flattened and unflattened, and sent in a binary format over a *)
(* channel that may cut it short or add bytes.                             *)
(***************************************************************************)
EXTENDS JsonBinaryReader, JsonPatch

CONSTANTS
    Sources,      \* values to start from
    Edits,        \* operations to edit with
    MaxEdits,     \* bound: operations in a row
    Letters       \* values to send

VARIABLES
    stage,        \* what is being done
    source,       \* the value before any edit
    value,        \* the value
    todo,         \* operations of a patch that are still to be applied
    edits,        \* operations applied, or bytes cut and added
    format,       \* [name, count, type] of the bytes
    bytes         \* what was sent

jvVars == <<stage, source, value, todo, edits, format, bytes>>

Formats ==
    {[name |-> "cbor", count |-> FALSE, type |-> FALSE],
     [name |-> "msgpack", count |-> FALSE, type |-> FALSE]}
    \cup {[name |-> "ubjson", count |-> c, type |-> t] : c \in BOOLEAN, t \in BOOLEAN}

NoFormat == [name |-> "none", count |-> FALSE, type |-> FALSE]

JvInit ==
    /\ \/ stage = "edit" /\ source \in Sources
       \/ stage = "letter" /\ source \in Letters
    /\ value = source
    /\ todo = << >>
    /\ edits = 0
    /\ format = NoFormat
    /\ bytes = << >>

-----------------------------------------------------------------------------
(* Patches and pointers                                                     *)

\* patch() with one operation; the value stays as it was if it throws.
Edit ==
    /\ stage = "edit" /\ edits < MaxEdits
    /\ \E o \in Edits :
          /\ value' = ApplyOperation(value, o)
          /\ value' # Failed
    /\ edits' = edits + 1
    /\ UNCHANGED <<stage, source, todo, format, bytes>>

\* source.patch(diff(source, value)): the patch is computed, and its operations
\* are applied to a copy of the source, kept in place of the source.
MakeDiff ==
    /\ stage = "edit"
    /\ stage' = "patch"
    /\ todo' = Diff(source, value, << >>)
    /\ UNCHANGED <<source, value, edits, format, bytes>>

ApplyNext ==
    /\ stage = "patch" /\ todo # << >>
    /\ source' = ApplyOperation(source, Head(todo))
    /\ todo' = Tail(todo)
    /\ stage' = IF source' = Failed THEN "failed" ELSE stage
    /\ UNCHANGED <<value, edits, format, bytes>>

\* value.flatten().unflatten()
FlattenUnflatten ==
    /\ stage = "edit"
    /\ stage' = "unflattened"
    /\ source' = value
    /\ value' = Unflatten(Object(Flatten(<< >>, value)))
    /\ UNCHANGED <<todo, edits, format, bytes>>

-----------------------------------------------------------------------------
(* Binary formats                                                           *)

\* to_cbor, to_msgpack, to_ubjson; an exception ends it.
Send ==
    /\ stage = "letter"
    /\ \E f \in Formats :
          /\ f.type => f.count
          /\ format' = f
          /\ bytes' = CASE f.name = "cbor"    -> WriteCbor(value)
                        [] f.name = "msgpack" -> WriteMsgpack(value)
                        [] f.name = "ubjson"  -> WriteUbjson(value, f.count, f.type, TRUE)
    /\ stage' = IF Thrown \in Range(bytes') THEN "thrown" ELSE "sent"
    /\ UNCHANGED <<source, value, todo, edits>>

\* CBOR as another program may write it: all arguments in eight bytes, all
\* lengths left open, strings in two chunks.
RECURSIVE ForeignCbor(_)
ForeignCbor(v) ==
    LET Chunks(s) == LET half == Len(s) \div 2
                     IN  <<127>> \o CborText(SubSeq(s, 1, half)) \o CborText(SubSeq(s, half + 1, Len(s))) \o <<255>>
    IN  CASE Kind(v) = "number_integer" /\ Negative(Content(v)) -> <<59>> \o Complement(Content(v))
          [] Kind(v) = "number_integer" /\ ~Negative(Content(v)) -> <<27>> \o Content(v)
          [] Kind(v) = "number_unsigned" -> <<27>> \o Content(v)
          [] Kind(v) = "string" -> Chunks(Content(v))
          [] Kind(v) = "array"  -> <<159>> \o Concat(Each(Content(v), ForeignCbor)) \o <<255>>
          [] Kind(v) = "object" ->
                <<191>> \o Concat(Each(Keys(v), LAMBDA k : Chunks(k) \o ForeignCbor(Content(v)[k]))) \o <<255>>
          [] OTHER -> WriteCbor(v)

SendForeign ==
    /\ stage = "letter"
    /\ stage' = "sent"
    /\ format' = [NoFormat EXCEPT !.name = "cbor"]
    /\ bytes' = ForeignCbor(value)
    /\ UNCHANGED <<source, value, todo, edits>>

\* Some bytes are cut off, or one is added.
Spoil ==
    /\ stage = "sent" /\ edits = 0
    /\ \/ \E n \in 0 .. Len(bytes) - 1 : bytes' = SubSeq(bytes, 1, n)
       \/ \E b \in {0, 78, 192} : bytes' = Append(bytes, b)
    /\ edits' = Len(bytes') - Len(bytes)
    /\ UNCHANGED <<stage, source, value, todo, format>>

\* from_cbor, from_msgpack, from_ubjson
Receive ==
    /\ stage = "sent"
    /\ stage' = "received"
    /\ value' = SaxParse(format.name, bytes)
    /\ UNCHANGED <<source, todo, edits, format, bytes>>

JvNext ==
    \/ Edit \/ MakeDiff \/ ApplyNext \/ FlattenUnflatten
    \/ Send \/ SendForeign \/ Spoil \/ Receive

JvSpec == JvInit /\ [][JvNext]_jvVars

-----------------------------------------------------------------------------
(* Properties                                                               *)

\* What patch() makes of the source with the operations of diff() is the
\* target, and no operation fails: indices shift while elements are removed and
\* added, keys hold slashes and tildes, members change their type.
PatchUndoesDiff ==
    /\ stage = "patch" /\ todo = << >> => Same(source, value)
    /\ stage # "failed"

\* unflatten undoes flatten for every value without empty arrays and objects,
\* of whatever depth and with whatever keys, as the note of unflatten says (json.hpp:18210).
\* Left out are the objects in which the first pointer leads to a member called
\* 0: unflatten makes an array of them, or fails.
RECURSIVE Flattens(_)
Flattens(v) ==
    IsStructured(v) =>
        /\ DOMAIN Content(v) # {}
        /\ IsObject(v) => Split(Keys(Object(Flatten(<< >>, v)))[1])[1] # <<48>>
        /\ \A i \in DOMAIN Content(v) : Flattens(Content(v)[i])
UnflattenUndoesFlatten ==
    stage = "unflattened" /\ Flattens(source) => value # Failed /\ Same(source, value)

\* A number that is not negative may change between signed and unsigned.
RECURSIVE Plain(_)
Plain(v) ==
    CASE IsStructured(v) -> <<Kind(v), [i \in DOMAIN Content(v) |-> Plain(Content(v)[i])]>>
      [] Kind(v) = "number_integer" /\ ~Negative(Content(v)) -> Unsigned(Content(v))
      [] OTHER -> v

\* What is read is what was written, in every format: numbers at the limits of
\* every width, strings and containers around the limits of the lengths.  A
\* message that was cut anywhere, or is followed by another byte, is refused,
\* except that UBJSON takes N for a pause.
BinaryRoundTrip ==
    stage = "received" =>
        \/ edits = 0 /\ Plain(value) = Plain(source)
        \/ edits # 0 /\ value = Discarded
        \/ edits = 1 /\ format.name = "ubjson" /\ Last(bytes) = 78 /\ Plain(value) = Plain(source)
=============================================================================
