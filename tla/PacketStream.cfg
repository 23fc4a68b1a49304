\* Two packets used in any order, int up to 3 and payloadSize up to 7.
CONSTANTS
    Objects = {o1, o2}
    Blocks = {b1, b2}
    NULL = NULL
    INT_MAX = 3
    Sizes = {0, 1, 2, 7}
    Fuels = {1}
    PeerSizes = {3, 4}
    MaxDue = 2
SYMMETRY Symmetry
SPECIFICATION Spec
INVARIANTS
    TypeOK
    OwnedOnce
    ExtensionFits
    InStep
PROPERTY Delivered
