SPECIFICATION SessionsSpec
CONSTANTS
    None = None
    s1 = s1
    s2 = s2
    Sessions <- MCSessionSet
    SchemaNames <- MCSchemaNames
    DefaultSchemas <- MCDefaultSchemas
    TableNames <- MCTableNames
    SchemaChanges <- MCSessionChanges
    MaxCrashes = 0
SYMMETRY SessionSymmetry
PROPERTIES
    SessionsImplementCatalog
