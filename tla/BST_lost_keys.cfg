SPECIFICATION Spec
CONSTANTS
    Key <- Keys4
    Value = {v1}
    Addr = {a1, a2, a3, a4}
    NULL = NULL
    Indeterminate = Indeterminate
SYMMETRY AddrSymmetry
PROPERTY DeleteRemovesOneKey
