SPECIFICATION Spec
CONSTANTS
    None = None
    SchemaNames <- MCSchemaNames
    DefaultSchemas <- MCDefaultSchemas
    TableNames <- MCTableNames
    SchemaChanges <- MCSchemaChanges
    MaxCrashes = 1
PROPERTIES
    ImplementsCatalog
