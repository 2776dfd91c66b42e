SPECIFICATION Spec
CONSTANTS
    p1 = p1
    p2 = p2
    p3 = p3
    p4 = p4
    alice = alice
    bob = bob
    Root = Root
    Nobody = Nobody
    Procs = {p1, p2, p3, p4}
    Users = {Root, alice, bob}
    UserOf <- MCUserOf
CHECK_DEADLOCK FALSE
PROPERTIES
    SharedDirServesAll
