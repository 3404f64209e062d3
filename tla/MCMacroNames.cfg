SPECIFICATION Spec
CONSTANTS
    Word <- MCWord
    Sources <- MCSources
    Input = "main"
    File <- MCFile
    DirOf <- MCDirOf
    Found <- MCFound
    Absolute = {}
    IncludePaths <- MCIncludePaths
    Name <- MCName
    BadCharacters <- MCBadCharacters
    DigitFirst = {}
    Empty = Empty
PROPERTY BadNameRefused
CHECK_DEADLOCK FALSE
