CONSTANTS
    Clis      = {c1}
    Hosts     = {h1, h2}
    Anonymous = {h2}
    Addrs     = {a1, a2}
    Certs     = {f1, f2}
    NoName    = NoName
    NoPin     = NoPin
    Down      = Down
    MaxNodes  = 2
SPECIFICATION Spec
INVARIANTS
    TypeOK
    UniqueNames
    PinBelongsToAddress
PROPERTIES
    UntouchedIsKept
SYMMETRY Symmetry
