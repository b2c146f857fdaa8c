SPECIFICATION SwapSpec
CONSTANTS
    Key <- Keys5
    Value = {v1}
    Addr = {a1, a2, a3, a4, a5}
    NULL = NULL
    Indeterminate = Indeterminate
SYMMETRY AddrSymmetry
INVARIANT SwapExchangesExactlySwappable
