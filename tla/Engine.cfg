CONSTANTS
    Byte = 8
    BitsPerByte = 3
    MaxTupleSize = 38
    Bar = 7
    NullText <- NullTextBytes
    NullMark <- NullMarkBytes
    c1 = c1
    c2 = c2
    Clients = {c1, c2}
    Setups <- MCSetups
SPECIFICATION Spec
INVARIANTS
    StatementExact
    OnlyMatching
    SelectStable
    AnswersAddUp
    IndexAgrees
PROPERTIES
    Answered
