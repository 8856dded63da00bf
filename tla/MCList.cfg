SPECIFICATION Spec
CONSTANTS
    Lists = {l1, l2}
    Elems = {e1, e2, e3, e4}
    head <- MCHead
    tail <- MCTail
    Null = Null
INVARIANTS
    LinksInverse
    CountExact
PROPERTIES
    ImplementsListSeq
