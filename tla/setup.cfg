\* Three executions of the program, together or one after the other.
SPECIFICATION MainSpec
CONSTANTS
    Instances = {m1, m2, m3}
SYMMETRY InstanceSymmetry
INVARIANTS ChildrenServed LeavesUnattachedOnly
PROPERTIES OnlyOwnDestroyed
