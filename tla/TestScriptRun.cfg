CONSTANTS
    MaxSelected <- MCMaxSelected
    MaxBatches <- MCMaxBatches
    Returns <- MCReturns
SPECIFICATION Spec
INVARIANTS
    TypeOK
    TalliesAddUp
    ReturnedVerdictIsOwn
