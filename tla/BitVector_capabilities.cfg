SPECIFICATION Spec
CONSTANTS
    Width = 8
INVARIANTS
    CapabilitiesAreRead
