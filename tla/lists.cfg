SPECIFICATION FairSpec
CONSTANTS
    Heads = {l1, l2}
    Nodes = {n1, n2, n3, n4}
    l1 = l1
    l2 = l2
    n1 = n1
    n2 = n2
    n3 = n3
    n4 = n4
    h = l1
    NoNode = NoNode
INVARIANTS
    ListsAreSequences
    WalkSeesList
    CommandsKept
PROPERTIES
    CommandsServed
CHECK_DEADLOCK FALSE
