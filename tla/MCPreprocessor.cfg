SPECIFICATION Spec
CONSTANTS
    MaxLines = 4
    Word <- MCWord
    Sources <- MCSources
    Input = "main"
    File <- MCFile
    DirOf <- MCDirOf
    Found <- MCFound
    Absolute <- MCAbsolute
    IncludePaths <- MCIncludePaths
    Name <- MCName
    BadCharacters <- MCBadCharacters
    DigitFirst <- MCDigitFirst
    Empty = Empty
INVARIANTS
    TypeOK
    NamesDistinct
    MatchesReference
PROPERTY Terminates
CHECK_DEADLOCK FALSE
