\* Any sequence of seven patterns and builds; up to five matches in five characters; all
\* pairs of 43 texts.
CONSTANTS
    Chars = {"x", "y", "eol"}
    OldTexts <- SomeTexts
    NewTexts <- SomeTexts
    EOL = "eol"
    Fold <- Lower
    Words <- SomeWords
    Haystacks <- Searched
    MaxDpCells = 16
    Length = 5
    MaxMatches = 5
SPECIFICATION TextSpec
INVARIANTS
    SearchIsExact
    ScanIsExact
    DiffIsSmallest
    PatchIsExact
CHECK_DEADLOCK FALSE
