----------------------------- MODULE JsonParser -----------------------------
(***************************************************************************)
(* The parser of the json library: sax_parse_internal works through the    *)
(* tokens of module JsonLexer with a stack of the open arrays and objects, *)
(* and reports events to a consumer that builds the value:                 *)
(* json_sax_dom_parser, or json_sax_dom_callback_parser, which asks a      *)
(* callback at every event whether to keep what was read.                  *)
(*                                                                         *)
(* The pointers of the consumers into the growing value are positions in   *)
(* it.  The callback is any function: it answers as it likes.  Errors are  *)
(* thrown (allow_exceptions), which ends the parse.                        *)
(***************************************************************************)
EXTENDS JsonLexer, FiniteSets

VARIABLES
    at,             \* what sax_parse_internal does with the next token
    states,         \* states: TRUE for an array, FALSE for an object
    root,           \* the value built so far
    refStack,       \* ref_stack
    objectElement,  \* object_element
    callback,       \* a callback is given
    keepStack,      \* keep_stack
    keyKeepStack,   \* key_keep_stack
    dropped         \* history: the callback has refused something

domVars == <<root, refStack, objectElement, keepStack, keyKeepStack, dropped>>
parseVars == <<lexVars, at, states, domVars, callback>>

\* The consumer of a parse; the one with a callback begins by keeping all.
DomInit ==
    /\ root = Null
    /\ refStack = << >>
    /\ objectElement = NullPtr
    /\ keepStack = IF callback THEN <<TRUE>> ELSE << >>
    /\ keyKeepStack = << >>
    /\ dropped = FALSE

ParseInit(shapes) ==
    /\ LexInit(shapes)
    /\ at = "value"
    /\ states = << >>
    /\ callback \in BOOLEAN
    /\ DomInit

-----------------------------------------------------------------------------
(* The consumer                                                             *)

\* The answer of the callback.
Asked(keep) == dropped' = (dropped \/ ~keep)

\* Where handle_value puts the next value: the root, the end of an array, or
\* the place that key() made.
Place ==
    IF refStack = << >> THEN << >>
    ELSE LET into == At(root, Last(refStack))
         IN  IF IsArray(into) THEN Append(Last(refStack), Len(Content(into)) + 1)
             ELSE objectElement

Store(v) ==
    LET grown == refStack # << >> /\ IsArray(At(root, Last(refStack)))
        back  == Last(refStack)
    IN  root' = IF grown THEN Put(root, back, Array(Append(Content(At(root, back)), v)))
                ELSE Put(root, Place, v)

\* handle_value of the callback parser: nothing is stored in a container that
\* is not kept, nor under a key that is not kept.
UnderKey ==
    /\ refStack # << >>
    /\ Last(refStack) # NullPtr
    /\ IsObject(At(root, Last(refStack)))

KeptPlace ==
    IF \/ refStack # << >> /\ Last(refStack) = NullPtr
       \/ UnderKey /\ ~Last(keyKeepStack)
    THEN NullPtr ELSE Place

HandleKept(v) ==
    /\ keyKeepStack' = IF UnderKey THEN Front(keyKeepStack) ELSE keyKeepStack
    /\ IF KeptPlace = NullPtr THEN UNCHANGED root ELSE Store(v)

\* null, boolean, number_..., string: a plain value.
PlainValue(v) ==
    /\ \/ ~callback /\ Store(v) /\ UNCHANGED <<keyKeepStack, dropped>>
       \/ callback /\ ~Last(keepStack) /\ UNCHANGED <<root, keyKeepStack, dropped>>
       \/ callback /\ Last(keepStack) /\ Asked(TRUE) /\ HandleKept(v)
       \/ callback /\ Last(keepStack) /\ Asked(FALSE) /\ UNCHANGED <<root, keyKeepStack>>
    /\ UNCHANGED <<refStack, objectElement, keepStack>>

\* start_object, start_array with the empty container v.
StartContainer(v) ==
    LET Enter(p) == refStack' = Append(refStack, p)
    IN  /\ \/ /\ ~callback /\ Store(v) /\ Enter(Place)
              /\ UNCHANGED <<keepStack, keyKeepStack, dropped>>
           \/ /\ callback
              /\ \E keep \in BOOLEAN :
                    /\ Asked(keep)
                    /\ keepStack' = Append(keepStack, keep)
                    /\ \/ keep /\ HandleKept(v) /\ Enter(KeptPlace)
                       \/ ~keep /\ Enter(NullPtr) /\ UNCHANGED <<root, keyKeepStack>>
        /\ UNCHANGED objectElement

\* key(): makes a place for the value that follows.
Key(k) ==
    LET back == Last(refStack)
        Make(v) == /\ root' = Put(root, back, WithKey(At(root, back), k, v))
                   /\ objectElement' = Append(back, k)
    IN  /\ \/ /\ ~callback
              /\ Make(IF k \in DOMAIN Content(At(root, back))
                      THEN Content(At(root, back))[k] ELSE Null)
              /\ UNCHANGED <<keyKeepStack, dropped>>
           \/ /\ callback
              /\ \E keep \in BOOLEAN :
                    /\ Asked(keep)
                    /\ keyKeepStack' = Append(keyKeepStack, keep)
                    /\ \/ keep /\ back # NullPtr /\ Make(Discarded)
                       \/ ~(keep /\ back # NullPtr) /\ UNCHANGED <<root, objectElement>>
        /\ UNCHANGED <<refStack, keepStack>>

\* The first discarded member of the object v, if any, is erased.
EraseDiscarded(v) ==
    LET gone == {i \in DOMAIN Keys(v) : Content(v)[Keys(v)[i]] = Discarded}
    IN  IF gone = {} THEN v
        ELSE WithoutKey(v, Keys(v)[CHOOSE i \in gone : \A j \in gone : i <= j])

\* Fault: a refused container is discarded and left on ref_stack.
UnpoppedEndKept(isArray, keep) ==
    LET own == Last(refStack)
    IN  /\ own = NullPtr => keep
        /\ root' = IF own # NullPtr /\ ~keep THEN Put(root, own, Discarded) ELSE root
        /\ refStack' = IF own # NullPtr /\ ~keep THEN refStack ELSE Front(refStack)
        /\ keepStack' = Front(keepStack)

\* end_object, end_array of the callback parser with the callback's answer: a
\* refused container is discarded; then the parent object loses a discarded
\* member, the parent array its last element.
EndKept(isArray, keep) ==
    LET own    == Last(refStack)
        rest   == Front(refStack)
        given  == IF own # NullPtr /\ ~keep THEN Put(root, own, Discarded) ELSE root
        parent == At(given, Last(rest))
        inside == rest # << >> /\ Last(rest) # NullPtr
    IN  /\ own = NullPtr => keep
        /\ refStack' = rest
        /\ keepStack' = Front(keepStack)
        /\ \/ ~inside /\ root' = given
           \/ /\ inside
              /\ root' = IF ~isArray /\ IsObject(parent)
                         THEN Put(given, Last(rest), EraseDiscarded(parent))
                         ELSE IF isArray /\ ~keep /\ IsArray(parent)
                         THEN Put(given, Last(rest), Array(Front(Content(parent))))
                         ELSE given

EndContainer(isArray) ==
    /\ \/ ~callback /\ refStack' = Front(refStack) /\ UNCHANGED <<root, keepStack, dropped>>
       \/ callback /\ \E keep \in BOOLEAN : Asked(keep) /\ EndKept(isArray, keep)
    /\ UNCHANGED <<objectElement, keyKeepStack>>

-----------------------------------------------------------------------------
(* sax_parse_internal                                                       *)

PlainTokens ==
    {"literal_true", "literal_false", "literal_null", "value_string",
     "value_unsigned", "value_integer", "value_float"}

\* strtod gives infinity: the decimal exponent of the leading digit of s is
\* above MaxExponent.
Overflows(s) ==
    LET expAt   == {i \in DOMAIN s : s[i] \in Exponents}
        mantEnd == IF expAt = {} THEN Len(s) ELSE (CHOOSE i \in expAt : TRUE) - 1
        mant    == SelectSeq(SubSeq(s, 1, mantEnd), LAMBDA c : c # 45)
        points  == {i \in DOMAIN mant : mant[i] = 46}
        whole   == IF points = {} THEN Len(mant) ELSE (CHOOSE i \in points : TRUE) - 1
        nonzero == {i \in DOMAIN mant : mant[i] \in 49 .. 57}
        lead    == CHOOSE i \in nonzero : \A j \in nonzero : i <= j
        place   == IF lead <= whole THEN whole - lead ELSE whole + 1 - lead
        expo    == IF expAt = {} THEN 0
                   ELSE LET e == SubSeq(s, mantEnd + 2, Len(s))
                        IN  IF e[1] = 45 THEN -Decimal(e) ELSE Decimal(e)
    IN  nonzero # {} /\ place + expo > MaxExponent

\* parse_error of the consumers throws, which ends the parse.
ParseError == at' = "rejected" /\ UNCHANGED domVars
Reject == ParseError /\ UNCHANGED <<lexVars, states>>

\* A value is complete: what its container, the last of st, expects next.
ValueDone(st) ==
    /\ states' = st
    /\ at' = IF st = << >> THEN "end" ELSE IF Last(st) THEN "in array" ELSE "in object"
    /\ GetToken

\* The switch over last_token where a value is expected.
Value ==
    /\ at = "value"
    /\ \/ /\ token.type \in PlainTokens
          /\ token.type = "value_float" => ~Overflows(Content(token.value))
          /\ PlainValue(token.value)
          /\ ValueDone(states)
       \/ /\ token.type = "begin_object"
          /\ StartContainer(EmptyObject)
          /\ at' = "object begun"
          /\ GetToken
          /\ UNCHANGED states
       \/ /\ token.type = "begin_array"
          /\ StartContainer(Array(<< >>))
          /\ at' = "array begun"
          /\ GetToken
          /\ UNCHANGED states
       \/ /\ \/ token.type \notin PlainTokens \cup {"begin_object", "begin_array"}
             \/ token.type = "value_float" /\ Overflows(Content(token.value))
          /\ Reject

\* After { : the end of the object or its first key.
ObjectBegun ==
    /\ at = "object begun"
    /\ \/ token.type = "end_object" /\ EndContainer(FALSE) /\ ValueDone(states)
       \/ /\ token.type = "value_string"
          /\ Key(Content(token.value))
          /\ states' = Append(states, FALSE)
          /\ at' = "separator"
          /\ GetToken
       \/ token.type \notin {"end_object", "value_string"} /\ Reject

\* After [ : the end of the array, or its first value with the same token.
ArrayBegun ==
    /\ at = "array begun"
    /\ \/ token.type = "end_array" /\ EndContainer(TRUE) /\ ValueDone(states)
       \/ /\ token.type # "end_array"
          /\ states' = Append(states, TRUE)
          /\ at' = "value"
          /\ UNCHANGED <<lexVars, domVars>>

Separator ==
    /\ at = "separator"
    /\ \/ token.type = "name_separator" /\ at' = "value" /\ GetToken
          /\ UNCHANGED <<states, domVars>>
       \/ token.type # "name_separator" /\ Reject

\* After a value in an array.
InArray ==
    /\ at = "in array"
    /\ \/ token.type = "value_separator" /\ at' = "value" /\ GetToken
          /\ UNCHANGED <<states, domVars>>
       \/ token.type = "end_array" /\ EndContainer(TRUE) /\ ValueDone(Front(states))
       \/ token.type \notin {"value_separator", "end_array"} /\ Reject

\* After a value in an object.
InObject ==
    /\ at = "in object"
    /\ \/ token.type = "value_separator" /\ at' = "key" /\ GetToken
          /\ UNCHANGED <<states, domVars>>
       \/ token.type = "end_object" /\ EndContainer(FALSE) /\ ValueDone(Front(states))
       \/ token.type \notin {"value_separator", "end_object"} /\ Reject

NextKey ==
    /\ at = "key"
    /\ \/ /\ token.type = "value_string"
          /\ Key(Content(token.value))
          /\ at' = "separator"
          /\ GetToken
          /\ UNCHANGED states
       \/ token.type # "value_string" /\ Reject

\* parse(): the input must be used up; a root the callback discarded is null.
End ==
    /\ at = "end"
    /\ \/ /\ token.type = "end_of_input"
          /\ at' = "accepted"
          /\ root' = IF callback /\ root = Discarded THEN Null ELSE root
          /\ UNCHANGED <<lexVars, states, refStack, objectElement, keepStack,
                         keyKeepStack, dropped>>
       \/ token.type # "end_of_input" /\ Reject

ParseStep ==
    /\ mode = "idle"
    /\ \/ Value \/ ObjectBegun \/ ArrayBegun \/ Separator
       \/ InArray \/ InObject \/ NextKey \/ End
    /\ UNCHANGED callback

ParseNext ==
    \/ LexStep /\ UNCHANGED <<at, states, domVars, callback>>
    \/ ParseStep

\* The parser on any input of bytes.
Inputs    == [bytes : Seq(SUBSET (0 .. 255)), whole : BOOLEAN]
ParseSpec == ParseInit(Inputs) /\ [][ParseNext]_parseVars

-----------------------------------------------------------------------------
(* Properties                                                               *)

\* The pointers of the consumers are safe: ref_stack leads from container to
\* container, each one inside the one below it, so that no array grows while a
\* pointer to one of its elements is in use; object_element is a place in the
\* object that is being filled.
Pointers == {i \in DOMAIN refStack : refStack[i] # NullPtr}
RefsValid ==
    /\ at \notin {"accepted", "rejected"} =>
          \A i \in Pointers :
              /\ Exists(root, refStack[i])
              /\ IsStructured(At(root, refStack[i]))
              /\ i = 1 => refStack[i] = << >>
              /\ i > 1 => i - 1 \in Pointers /\ Front(refStack[i]) = refStack[i - 1]
    /\ at = "value" /\ states # << >> /\ ~Last(states) /\ Last(refStack) # NullPtr =>
          \/ callback /\ ~Last(keyKeepStack)
          \/ /\ objectElement # NullPtr
             /\ Exists(root, objectElement)
             /\ Front(objectElement) = Last(refStack)
=============================================================================
