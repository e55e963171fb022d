---------------------------- MODULE SchemaPlanner ----------------------------
(***************************************************************************)
(* The DDL planner of data/schema_planner: SystemSchemaPlanner lowers a    *)
(* SchemaChange into a SystemOperation, a sequence of sub-programs of      *)
(* steps, one sub-program for each object the change names.  The planner   *)
(* is a pure function and never looks at the catalog; what IF [NOT] EXISTS *)
(* means is left to whoever executes the plan, as skip_steps_if.           *)
(***************************************************************************)
EXTENDS Naturals, Sequences

CONSTANTS None          \* the None of an Option

(***************************************************************************)
(* The vocabulary of data_definition_operations.  A step is a record       *)
(* tagged by its variant's name, with the fields of that variant.          *)
(***************************************************************************)

Kind(action, system_object) == [action |-> action, system_object |-> system_object]

ObjectStep(step, system_object, object_name) ==
    [step |-> step, system_object |-> system_object, object_name |-> object_name]

CheckExistence(system_object, object_name) ==
    ObjectStep("CheckExistence", system_object, object_name)
CheckDependants(system_object, object_name) ==
    ObjectStep("CheckDependants", system_object, object_name)
RemoveDependants(system_object, object_name) ==
    ObjectStep("RemoveDependants", system_object, object_name)

CreateFolder(name) == [step |-> "CreateFolder", name |-> name]
RemoveFolder(name, only_if_empty) ==
    [step |-> "RemoveFolder", name |-> name, only_if_empty |-> only_if_empty]
CreateFile(folder_name, name) ==
    [step |-> "CreateFile", folder_name |-> folder_name, name |-> name]
RemoveFile(folder_name, name) ==
    [step |-> "RemoveFile", folder_name |-> folder_name, name |-> name]
CreateRecord(record) == [step |-> "CreateRecord", record |-> record]
RemoveRecord(record) == [step |-> "RemoveRecord", record |-> record]
RemoveColumns(schema_name, table_name) ==
    [step |-> "RemoveColumns", schema_name |-> schema_name, table_name |-> table_name]

SchemaRecord(schema_name) == [record |-> "Schema", schema_name |-> schema_name]
TableRecord(schema_name, table_name) ==
    [record |-> "Table", schema_name |-> schema_name, table_name |-> table_name]
ColumnRecord(schema_name, table_name, column_name, sql_type) ==
    [record |-> "Column", schema_name |-> schema_name, table_name |-> table_name,
     column_name |-> column_name, sql_type |-> sql_type]

(***************************************************************************)
(* The statements of data_definition_execution_plan: a SchemaChange is a   *)
(* record tagged by its variant's name, with the fields of its query.      *)
(***************************************************************************)

CreateSchemaQuery(schema_name, if_not_exists) ==
    [change |-> "CreateSchema", schema_name |-> schema_name,
     if_not_exists |-> if_not_exists]
DropSchemasQuery(schema_names, cascade, if_exists) ==
    [change |-> "DropSchemas", schema_names |-> schema_names,
     cascade |-> cascade, if_exists |-> if_exists]
CreateTableQuery(full_table_name, column_defs, if_not_exists) ==
    [change |-> "CreateTable", full_table_name |-> full_table_name,
     column_defs |-> column_defs, if_not_exists |-> if_not_exists]
DropTablesQuery(full_table_names, cascade, if_exists) ==
    [change |-> "DropTables", full_table_names |-> full_table_names,
     cascade |-> cascade, if_exists |-> if_exists]

\* FullTableName is a pair; schema() and table() are its two accessors.
schema(full_table_name) == full_table_name[1]
table(full_table_name) == full_table_name[2]

(***************************************************************************)
(* CREATE SCHEMA                                                           *)
(***************************************************************************)

create_schema_steps(schema_name) ==
    <<CheckExistence("Schema", <<schema_name>>),
      CreateFolder(schema_name),
      CreateRecord(SchemaRecord(schema_name))>>

CreateSchemaPlan(q) ==
    [kind          |-> Kind("Create", "Schema"),
     skip_steps_if |-> IF q.if_not_exists THEN "Exists" ELSE None,
     steps         |-> <<create_schema_steps(q.schema_name)>>]

(***************************************************************************)
(* DROP SCHEMA                                                             *)
(***************************************************************************)

\* A faulty sub-program: the negation of only_if_empty dropped.
for_schema_only_if_empty_not_negated(schema_name, cascade) ==
    <<CheckExistence("Schema", <<schema_name>>),
      IF cascade THEN RemoveDependants("Schema", <<schema_name>>)
                 ELSE CheckDependants("Schema", <<schema_name>>),
      RemoveRecord(SchemaRecord(schema_name)),
      RemoveFolder(schema_name, cascade)>>

\* A faulty sub-program: the two arms of "if *cascade" exchanged.
for_schema_cascade_arms_swapped(schema_name, cascade) ==
    <<CheckExistence("Schema", <<schema_name>>),
      IF cascade THEN CheckDependants("Schema", <<schema_name>>)
                 ELSE RemoveDependants("Schema", <<schema_name>>),
      RemoveRecord(SchemaRecord(schema_name)),
      RemoveFolder(schema_name, ~cascade)>>

\* A faulty sub-program: the schema's row removed before its dependants
\* are looked at.
for_schema_record_before_dependants(schema_name, cascade) ==
    <<CheckExistence("Schema", <<schema_name>>),
      RemoveRecord(SchemaRecord(schema_name)),
      IF cascade THEN RemoveDependants("Schema", <<schema_name>>)
                 ELSE CheckDependants("Schema", <<schema_name>>),
      RemoveFolder(schema_name, ~cascade)>>

\* The body of "for schema_name in schema_names".
for_schema(schema_name, cascade) ==
    <<CheckExistence("Schema", <<schema_name>>),
      IF cascade THEN RemoveDependants("Schema", <<schema_name>>)
                 ELSE CheckDependants("Schema", <<schema_name>>),
      RemoveRecord(SchemaRecord(schema_name)),
      RemoveFolder(schema_name, ~cascade)>>

DropSchemasPlan(q) ==
    [kind          |-> Kind("Drop", "Schema"),
     skip_steps_if |-> IF q.if_exists THEN "NotExists" ELSE None,
     steps         |-> [i \in DOMAIN q.schema_names |->
                            for_schema(q.schema_names[i], q.cascade)]]

(***************************************************************************)
(* CREATE TABLE                                                            *)
(***************************************************************************)

column_record(full_table_name, column_info) ==
    CreateRecord(ColumnRecord(schema(full_table_name), table(full_table_name),
                              column_info.name, column_info.sql_type))

\* A faulty loop that stops one column short.
column_records_without_last(full_table_name, column_defs) ==
    [i \in 1 .. Len(column_defs) - 1 |-> column_record(full_table_name, column_defs[i])]

\* "for ColumnInfo { name, sql_type } in column_defs".
column_records(full_table_name, column_defs) ==
    [i \in DOMAIN column_defs |-> column_record(full_table_name, column_defs[i])]

\* A faulty template: the table's row written before its file exists.
create_table_steps_record_first(full_table_name, column_defs) ==
    <<CheckExistence("Schema", <<schema(full_table_name)>>),
      CheckExistence("Table", <<schema(full_table_name), table(full_table_name)>>),
      CreateRecord(TableRecord(schema(full_table_name), table(full_table_name))),
      CreateFile(schema(full_table_name), table(full_table_name))>>
    \o column_records(full_table_name, column_defs)

\* A faulty template: the table is created without a look at its schema.
create_table_steps_without_schema_check(full_table_name, column_defs) ==
    <<CheckExistence("Table", <<schema(full_table_name), table(full_table_name)>>),
      CreateFile(schema(full_table_name), table(full_table_name)),
      CreateRecord(TableRecord(schema(full_table_name), table(full_table_name)))>>
    \o column_records(full_table_name, column_defs)

\* A faulty template: the two String arguments of CreateFile exchanged.
create_table_steps_file_in_table_folder(full_table_name, column_defs) ==
    <<CheckExistence("Schema", <<schema(full_table_name)>>),
      CheckExistence("Table", <<schema(full_table_name), table(full_table_name)>>),
      CreateFile(table(full_table_name), schema(full_table_name)),
      CreateRecord(TableRecord(schema(full_table_name), table(full_table_name)))>>
    \o column_records(full_table_name, column_defs)

create_table_steps(full_table_name, column_defs) ==
    <<CheckExistence("Schema", <<schema(full_table_name)>>),
      CheckExistence("Table", <<schema(full_table_name), table(full_table_name)>>),
      CreateFile(schema(full_table_name), table(full_table_name)),
      CreateRecord(TableRecord(schema(full_table_name), table(full_table_name)))>>
    \o column_records(full_table_name, column_defs)

CreateTablePlan(q) ==
    [kind          |-> Kind("Create", "Table"),
     skip_steps_if |-> IF q.if_not_exists THEN "Exists" ELSE None,
     steps         |-> <<create_table_steps(q.full_table_name, q.column_defs)>>]

(***************************************************************************)
(* DROP TABLE                                                              *)
(***************************************************************************)

\* A faulty sub-program: the table's row removed before its column rows.
for_table_record_before_columns(full_table_name) ==
    <<CheckExistence("Schema", <<schema(full_table_name)>>),
      CheckExistence("Table", <<schema(full_table_name), table(full_table_name)>>),
      RemoveRecord(TableRecord(schema(full_table_name), table(full_table_name))),
      RemoveColumns(schema(full_table_name), table(full_table_name)),
      RemoveFile(schema(full_table_name), table(full_table_name))>>

\* The body of "for full_table_name in full_table_names".
for_table(full_table_name) ==
    <<CheckExistence("Schema", <<schema(full_table_name)>>),
      CheckExistence("Table", <<schema(full_table_name), table(full_table_name)>>),
      RemoveColumns(schema(full_table_name), table(full_table_name)),
      RemoveRecord(TableRecord(schema(full_table_name), table(full_table_name))),
      RemoveFile(schema(full_table_name), table(full_table_name))>>

\* A faulty loop that passes over the first name of the list.
DropTablesPlan_without_first(q) ==
    [kind          |-> Kind("Drop", "Table"),
     skip_steps_if |-> IF q.if_exists THEN "NotExists" ELSE None,
     steps         |-> [i \in 1 .. Len(q.full_table_names) - 1 |->
                            for_table(q.full_table_names[i + 1])]]

\* The query's cascade is matched by ".." and never read.
DropTablesPlan(q) ==
    [kind          |-> Kind("Drop", "Table"),
     skip_steps_if |-> IF q.if_exists THEN "NotExists" ELSE None,
     steps         |-> [i \in DOMAIN q.full_table_names |->
                            for_table(q.full_table_names[i])]]

(***************************************************************************)
(* SystemSchemaPlanner::schema_change_plan                                 *)
(***************************************************************************)

schema_change_plan(schema_change) ==
    CASE schema_change.change = "CreateSchema" -> CreateSchemaPlan(schema_change)
      [] schema_change.change = "DropSchemas"  -> DropSchemasPlan(schema_change)
      [] schema_change.change = "CreateTable"  -> CreateTablePlan(schema_change)
      [] schema_change.change = "DropTables"   -> DropTablesPlan(schema_change)

=============================================================================
