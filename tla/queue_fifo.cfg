SPECIFICATION Spec
CONSTANTS
    Nodes = {n1, n2, n3, n4}
    Objects = {o1, o2}
    NULL = NULL
SYMMETRY NodeSymmetry
INVARIANTS
    TypeOK
    WellLinked
    NodesOnce
    NothingLeaks
PROPERTIES
    FifoSpec
