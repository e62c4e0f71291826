CONSTANTS
    Clis      = {c1, c2}
    Hosts     = {h1}
    Anonymous = {h1}
    Addrs     = {a1, a2}
    Certs     = {f1, f2}
    NoName    = NoName
    NoPin     = NoPin
    Down      = Down
    MaxNodes  = 2
SPECIFICATION Spec
INVARIANTS
    PinBelongsToAddress
PROPERTIES
    UntouchedIsKept
CONSTRAINT FewServed
SYMMETRY Symmetry
