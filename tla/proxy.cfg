SPECIFICATION Spec
CONSTANTS
    N = 2
    Client = {c1, c2}
    Reads = 1
    Fd = {3, 4}
    ConnCount = 256
    MaxElections = 0
INVARIANTS
    TypeOK
    InputsAgreed
    AppliedIsHanded
PROPERTIES
    AllServed
