SPECIFICATION PairSpec
CONSTANTS
    PortInput <- MCPortInput
    Programs <- MCPrograms
    Heap <- MCHeap
INVARIANT TypeOK
PROPERTY R0Hidden
