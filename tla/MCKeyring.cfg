CONSTANTS
    Clis      = {c1, c2}
    None      = None
    MaxKeys   = 5
    MaxFaults = 2
SPECIFICATION Spec
INVARIANTS
    TypeOK
    OneFaultKeepsCA
    IssuedIsConsistent
    IdentityMatches
    LossesAreFailures
    ReadyCAIsThere

    
CONSTRAINT FewKeys
SYMMETRY Symmetry
