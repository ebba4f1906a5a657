SPECIFICATION Spec
INVARIANTS
    FiltersHold
