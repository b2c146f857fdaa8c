SPECIFICATION FixedRootSpec
CONSTANTS
    Key <- Keys4
    Value = {v1, v2}
    Addr = {a1, a2, a3, a4}
    NULL = NULL
    Indeterminate = Indeterminate
INVARIANTS WellFormed NoFault WalkNarrows
PROPERTIES ImplementsMap EveryCallReturns
