SPECIFICATION Spec
INVARIANTS
    Unambiguous
    RoundTrip
    AssemblerAgrees
    ListingReassembles
