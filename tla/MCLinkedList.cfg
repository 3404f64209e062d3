SPECIFICATION Spec
CONSTANTS
    Node  = {n1, n2, n3, n4}
    Datum = {d1, d2, d3, d4}
    NULL  = NULL
    Freed = Freed
    Index <- MCIndex
SYMMETRY Interchangeable
INVARIANTS
    TypeOK
    BothWays
PROPERTY IsSequence
