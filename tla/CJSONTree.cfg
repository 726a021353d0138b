SPECIFICATION Spec
INVARIANTS
    ListsWhole
    FreedOnce
    AllOrNothing
PROPERTY
    ImplementsForest
