------------------------- MODULE SchemaPlannerTests -------------------------
(***************************************************************************)
(* The unit tests of the DDL planner (mod tests of data/schema_planner):   *)
(* for each test the statement it plans and the SystemOperation it         *)
(* expects, step by step as the test spells it out.  The expectations are  *)
(* written from the tests alone, so that comparing them with SchemaPlanner *)
(* compares two independent readings of the same code.                     *)
(***************************************************************************)
EXTENDS SchemaPlanner

SCHEMA == "schema"
OTHER_SCHEMA == "other_schema"
TABLE == "table"
OTHER_TABLE == "other_table"

\* The two columns of create_with_columns.
col_1 == [name |-> "col_1", sql_type |-> "small_int"]
col_2 == [name |-> "col_2", sql_type |-> "big_int"]

Expect(query, kind, skip_steps_if, steps) ==
    [query |-> query,
     plan  |-> [kind |-> kind, skip_steps_if |-> skip_steps_if, steps |-> steps]]

\* The three steps both tests of CREATE SCHEMA expect.
schema_created ==
    <<CheckExistence("Schema", <<SCHEMA>>),
      CreateFolder(SCHEMA),
      CreateRecord(SchemaRecord(SCHEMA))>>

schema_create ==
    Expect(CreateSchemaQuery(SCHEMA, FALSE),
           Kind("Create", "Schema"), None, <<schema_created>>)

schema_create_if_not_exists ==
    Expect(CreateSchemaQuery(SCHEMA, TRUE),
           Kind("Create", "Schema"), "Exists", <<schema_created>>)

\* The sub-program the tests of DROP SCHEMA expect for one name without
\* CASCADE, and the one they expect with it.
schema_dropped(name) ==
    <<CheckExistence("Schema", <<name>>),
      CheckDependants("Schema", <<name>>),
      RemoveRecord(SchemaRecord(name)),
      RemoveFolder(name, TRUE)>>

schema_dropped_cascade(name) ==
    <<CheckExistence("Schema", <<name>>),
      RemoveDependants("Schema", <<name>>),
      RemoveRecord(SchemaRecord(name)),
      RemoveFolder(name, FALSE)>>

schema_drop_single_schema ==
    Expect(DropSchemasQuery(<<SCHEMA>>, FALSE, FALSE),
           Kind("Drop", "Schema"), None, <<schema_dropped(SCHEMA)>>)

schema_drop_many ==
    Expect(DropSchemasQuery(<<SCHEMA, OTHER_SCHEMA>>, FALSE, FALSE),
           Kind("Drop", "Schema"), None,
           <<schema_dropped(SCHEMA), schema_dropped(OTHER_SCHEMA)>>)

schema_drop_many_cascade ==
    Expect(DropSchemasQuery(<<SCHEMA, OTHER_SCHEMA>>, TRUE, FALSE),
           Kind("Drop", "Schema"), None,
           <<schema_dropped_cascade(SCHEMA), schema_dropped_cascade(OTHER_SCHEMA)>>)

schema_drop_many_if_exists ==
    Expect(DropSchemasQuery(<<SCHEMA, OTHER_SCHEMA>>, FALSE, TRUE),
           Kind("Drop", "Schema"), "NotExists",
           <<schema_dropped(SCHEMA), schema_dropped(OTHER_SCHEMA)>>)

\* The four steps every test of CREATE TABLE expects first.
table_created ==
    <<CheckExistence("Schema", <<SCHEMA>>),
      CheckExistence("Table", <<SCHEMA, TABLE>>),
      CreateFile(SCHEMA, TABLE),
      CreateRecord(TableRecord(SCHEMA, TABLE))>>

table_create_without_columns ==
    Expect(CreateTableQuery(<<SCHEMA, TABLE>>, <<>>, FALSE),
           Kind("Create", "Table"), None, <<table_created>>)

table_create_if_not_exists ==
    Expect(CreateTableQuery(<<SCHEMA, TABLE>>, <<>>, TRUE),
           Kind("Create", "Table"), "Exists", <<table_created>>)

table_create_with_columns ==
    Expect(CreateTableQuery(<<SCHEMA, TABLE>>, <<col_1, col_2>>, FALSE),
           Kind("Create", "Table"), None,
           <<table_created
             \o <<CreateRecord(ColumnRecord(SCHEMA, TABLE, "col_1", "small_int")),
                  CreateRecord(ColumnRecord(SCHEMA, TABLE, "col_2", "big_int"))>>>>)

\* The sub-program the tests of DROP TABLE expect for one table of SCHEMA.
table_dropped(name) ==
    <<CheckExistence("Schema", <<SCHEMA>>),
      CheckExistence("Table", <<SCHEMA, name>>),
      RemoveColumns(SCHEMA, name),
      RemoveRecord(TableRecord(SCHEMA, name)),
      RemoveFile(SCHEMA, name)>>

table_drop_many ==
    Expect(DropTablesQuery(<<<<SCHEMA, TABLE>>, <<SCHEMA, OTHER_TABLE>>>>, FALSE, FALSE),
           Kind("Drop", "Table"), None,
           <<table_dropped(TABLE), table_dropped(OTHER_TABLE)>>)

\* With CASCADE the test expects the very plan it expects without.
table_drop_many_cascade ==
    Expect(DropTablesQuery(<<<<SCHEMA, TABLE>>, <<SCHEMA, OTHER_TABLE>>>>, TRUE, FALSE),
           Kind("Drop", "Table"), None,
           <<table_dropped(TABLE), table_dropped(OTHER_TABLE)>>)

table_drop_many_if_exists ==
    Expect(DropTablesQuery(<<<<SCHEMA, TABLE>>, <<SCHEMA, OTHER_TABLE>>>>, FALSE, TRUE),
           Kind("Drop", "Table"), "NotExists",
           <<table_dropped(TABLE), table_dropped(OTHER_TABLE)>>)

UnitTests ==
    {schema_create, schema_create_if_not_exists, schema_drop_single_schema,
     schema_drop_many, schema_drop_many_cascade, schema_drop_many_if_exists,
     table_create_without_columns, table_create_if_not_exists,
     table_create_with_columns, table_drop_many, table_drop_many_cascade,
     table_drop_many_if_exists}

=============================================================================
