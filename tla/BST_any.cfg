SPECIFICATION Spec
CONSTANTS
    Key <- Keys5
    Value = {v1}
    Addr = {a1, a2, a3, a4, a5}
    NULL = NULL
    Indeterminate = Indeterminate
SYMMETRY AddrSymmetry
CONSTRAINT FewDamaged
INVARIANTS TypeOK RootStays
PROPERTIES HandlesStay OnlyDeleteBreaks DeleteBreaksExactlyOnHazard
