CONSTANTS
    Byte = 8
    BitsPerByte = 3
    MaxTupleSize = 38
    Bar = 7
    NullText <- NullTextBytes
    NullMark <- NullMarkBytes
    Tables <- MCTables
    MaxRows = 3
    Statements <- MCStatements
    IndexedOf <- MCIndexedOf
    Numerals <- MCNumerals
    keywords <- MCKeywords
    Scripts <- MCScripts
    EditTokens <- MCEditTokens
    Lexemes <- MCLexemes
    MaxLexemes = 3
SPECIFICATION Spec
INVARIANTS
    SelectExact
    IndexScanExact
    ParsesExact
    LexesBack
