SPECIFICATION EngineSpec
CONSTANTS
    None = None
    Strings <- MCStrings
    to_lowercase <- MCto_lowercase
    ParamNumber <- MCParamNumber
    BinaryOperators <- MCBinaryOperators
    binary_operation <- MCbinary_operation
    Lens <- MCLens
    SchemaNames <- MCSchemaNames
    DefaultSchemas <- MCDefaultSchemas
    TableNames <- MCTableNames
    SchemaChanges <- MCSchemaChanges
    SchemaStatements <- MCSchemaStatements
    Queries <- MCQueries
    MaxCrashes = 0
INVARIANTS
    EngineTypeOK
    UnquotedSchemasAreFound
    UnqualifiedMeansPublic
    AnalyzerPassesItsUnitTests
    AnalysedColumnsAreWireEncodable
PROPERTIES
    OnlyStaleReadsFail
CHECK_DEADLOCK FALSE
