CONSTANTS
    Units <- MCUnits
    MaxUnits <- MCMaxUnits
    MaxAnswer <- MCMaxAnswer
SPECIFICATION Spec
INVARIANTS
    TypeOK
    DecodeMatchesSpec
    OutputRoundTrip
PROPERTIES
    SendsSpecEncoding
