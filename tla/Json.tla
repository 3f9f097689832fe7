-------------------------------- MODULE Json --------------------------------
(***************************************************************************)
(* The json library: a behaviour reads a text (JsonText) or works on a     *)
(* value (JsonValues).                                                     *)
(***************************************************************************)
EXTENDS JsonText, JsonValues

VARIABLE task

jsonVars == <<task, jtVars, jvVars>>

\* Nothing to read; no value.
JtIdle ==
    /\ doc = NoDocument
    /\ ParseInit({Exactly(<< >>)}) /\ ~callback

JvIdle ==
    /\ stage = "none" /\ source = Null /\ value = Null /\ todo = << >>
    /\ edits = 0 /\ format = NoFormat /\ bytes = << >>

JsonInit ==
    \/ task = "text" /\ JtInit /\ JvIdle
    \/ task = "values" /\ JtIdle /\ JvInit

JsonNext ==
    \/ task = "text" /\ JtNext /\ UNCHANGED <<task, jvVars>>
    \/ task = "values" /\ JvNext /\ UNCHANGED <<task, jtVars>>

JsonSpec == JsonInit /\ [][JsonNext]_jsonVars
=============================================================================
