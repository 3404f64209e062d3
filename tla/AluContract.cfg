SPECIFICATION Spec
CONSTANT HighBytes = {0, 127, 128, 255}
INVARIANTS
    CompareByAdding
    AddChain
    SubChain
    LogicAgreesWithSum
