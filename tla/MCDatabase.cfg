SPECIFICATION Spec
CONSTANTS
    None = None
    SchemaNames <- MCSchemaNames
    DefaultSchemas <- MCDefaultSchemas
    TableNames <- MCTableNames
    SchemaChanges <- MCSchemaChanges
    MaxCrashes = 2
INVARIANTS
    TypeOK
    CatalogBackedByStorage
    NoDanglingRows
    QuiescentStorageMirrorsCatalog
    FinishedChangeTakesEffect
PROPERTIES
    RejectedSubprogramChangesNothing
    TablesVanishOnlyOnRequest
