\* Text: inputs of seven shapes, and twenty values written in six ways.  Values:
\* eleven edited twice, some hundred sent in every format.
CONSTANTS
    NullPtr = NullPtr
    UnsignedMax = 15
    NegativeMax = 8
    MaxExponent = 9
    BufferSize = 16
    Shapes <- TextShapes
    Documents <- TextDocuments
    Tails <- AnyTail
    Sources <- EditSources
    Edits <- PatchEdits
    MaxEdits = 2
    Letters <- AllLetters
SPECIFICATION JsonSpec
INVARIANTS ParsesGrammar RefsValid WriteReadBack
           PatchUndoesDiff UnflattenUndoesFlatten BinaryRoundTrip
CHECK_DEADLOCK FALSE
