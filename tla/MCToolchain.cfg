SPECIFICATION Spec
CONSTANTS
    Invocations <- MCInvocations
    Writable <- MCWritable
    Vocabulary <- MCVocabulary
    File <- MCFile
    DirOf <- MCDirOf
    Found <- MCFound
    Absolute = {}
    Name <- MCName
    BadCharacters <- MCBadCharacters
    DigitFirst = {}
    Empty = ""
    LabelOf <- MCLabelOf
    TokenOf <- MCTokenOf
    ItemsOf <- MCItemsOf
INVARIANTS
    MakesImage
    ListedAsAssembled
PROPERTIES
    Finishes
CHECK_DEADLOCK FALSE
