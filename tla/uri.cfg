SPECIFICATION Spec
CONSTANT RFC = FALSE
CHECK_DEADLOCK FALSE
INVARIANTS
    AcceptsGrammar
    ComponentsAreText
    ThrowsOnEmptyPort
    DiffersFromRfc
