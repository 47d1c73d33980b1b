CONSTANTS
    MaxSelected <- MCMaxSelected
    MaxBatches <- MCMaxBatches
    Returns <- MCReturns
SPECIFICATION Spec
INVARIANT
    VerdictIsOwn
