SPECIFICATION AVLSpec
CONSTANTS
    Key <- Keys4
    Value = {v1}
    Addr = {a1, a2, a3, a4}
    NULL = NULL
    Indeterminate = Indeterminate
    MaxInt = 4
    Garbage <- NoGarbage
SYMMETRY AddrSymmetry
PROPERTY MeasuredExactly
