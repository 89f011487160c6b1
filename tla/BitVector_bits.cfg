SPECIFICATION Spec
CONSTANTS
    Width = 8
INVARIANTS
    EachIsTheVector
PROPERTIES
    ImplementsBitSet
