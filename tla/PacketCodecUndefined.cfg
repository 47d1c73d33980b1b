CONSTANTS
    Units <- MCUnits
    MaxUnits <- MCMaxUnits
    MaxAnswer <- MCMaxAnswer
SPECIFICATION Spec
INVARIANT
    NoUndefinedDecode
