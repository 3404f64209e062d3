SPECIFICATION Spec
CONSTANTS
    PortInput <- MCPortInput
    Programs <- MCPrograms
    Heap <- MCHeap
PROPERTY ResultInR0
