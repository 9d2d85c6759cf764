SPECIFICATION TextSpec
CONSTANTS
    Letters <- MCLetters
    Digits <- MCDigits
    Spaces <- MCSpaces
    Symbols <- MCSymbols
    Keywords <- MCKeywords
    SchemaSpaces <- MCSchemaSpaces
    MaxId = 65
    Alphabet <- MCAlphabet
    MaxLength <- MCMaxLength
INVARIANTS
    LexerReadsLexemes QuotingRoundTrips
    SchemaReadsNames
    RowsRoundTrip LinesAreCanonical ScanFindsEveryLine IdsAreExact
CHECK_DEADLOCK FALSE
