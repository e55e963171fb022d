SPECIFICATION Spec
CONSTANTS
    Lens <- MCLens
    None = None
INVARIANTS
    TypeOK
    CompareIsWideningJoin
    CompareIsAssociative
    TypeIdRoundTrip
    DdlTypesAreWireEncodable
