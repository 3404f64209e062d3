SPECIFICATION StackSpec
CONSTANTS
    PortInput <- MCPortInput
    Programs <- MCPrograms
    Heap <- MCHeap
INVARIANTS
    FibResult
    CodeIntact
    Disciplined
    Recursing
PROPERTIES
    CallsReturn
    Halts
