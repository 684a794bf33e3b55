SPECIFICATION Spec
CONSTANTS
    Letter <- MCLetter
    Reserved <- MCReserved
    Unnamed <- MCUnnamed
    Allowed <- MCAllowed
    MaxLen = 5
    MaxName = 6
INVARIANTS
    OneName
    Inside
    PortableKept
