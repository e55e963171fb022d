------------------------------ MODULE Analyzer ------------------------------
(***************************************************************************)
(* The query analyzer: a parsed statement, looked at against a view of the *)
(* catalog, becomes a SelectQuery, an UntypedWrite or a SchemaChange, or   *)
(* is refused with an AnalysisError.                                       *)
(*                                                                         *)
(* Of the analyzer's code the static builder is among the sources, and so  *)
(* are the tests of the whole.  What is not among them is written here     *)
(* from its description and held against the tests.  Expressions           *)
(* in the values of an INSERT go through StaticTree; those of a SELECT or  *)
(* an UPDATE through the dynamic builder, which knows the table's columns. *)
(***************************************************************************)
EXTENDS Definition, UntypedQueries, SequencesExt

CONSTANTS ParamNumber,      \* n for an identifier spelled $n, None for another
          BinaryOperators,  \* sql_ast::BinaryOperator
          binary_operation, \* OperationMapper::binary_operation
          Lens              \* the string lengths the model tells apart

\* The builder of the contexts that take no column.
Static == INSTANCE StaticTree WITH Idents <- Strings

\* The type system, for the column types of CREATE TABLE.
Types == INSTANCE SqlTypes

\* enum QueryAnalysis
Read(query) == [analysis |-> "Read", query |-> query]
Write(query) == [analysis |-> "Write", query |-> query]
DataDefinition(change) == [analysis |-> "DataDefinition", change |-> change]

\* The variants of AnalysisError that name something of the catalog.
schema_does_not_exist(schema_name) ==
    [error |-> "SchemaDoesNotExist", name |-> schema_name]
table_does_not_exist(full_table_name) ==
    [error |-> "TableDoesNotExist", name |-> to_string(full_table_name)]
column_not_found(column_name) == [error |-> "ColumnNotFound", name |-> column_name]

\* DynamicUntypedItem::Column; Param, Const and Operation are as in the
\* static tree.
Column(name, index, sql_type) ==
    [tree |-> "Item", item |-> "Column", name |-> name, index |-> index,
     sql_type |-> sql_type]

\* A result of a builder as a result of the analysis.
lift(result) == IF result.ok THEN Success(result.tree) ELSE Failure(result.error)

\* The first failure of a walk from left to right, or all the values.
all_or_first_error(results) ==
    LET failures == SelectSeq(results, LAMBDA r : ~r.ok)
    IN  IF failures # <<>> THEN failures[1]
        ELSE Success([i \in DOMAIN results |-> results[i].value])

(***************************************************************************)
(* The catalog as the analyzer sees it                                     *)
(***************************************************************************)

schema_exists(database, schema_name) == schema_name \in database.schemas

table_exists(database, full_table_name) == full_table_name \in database.tables

\* A faulty listing: positions counted from one.
table_def_ord_num_from_one(database, full_table_name) ==
    LET rows == database.columns[full_table_name]
    IN  TableDef_new(full_table_name,
            [i \in DOMAIN rows |-> ColumnDef_new(rows[i].name, rows[i].sql_type, i)])

\* The columns of a table in declared order, the first at position 0.
table_def(database, full_table_name) ==
    LET rows == database.columns[full_table_name]
    IN  TableDef_new(full_table_name,
            [i \in DOMAIN rows |-> ColumnDef_new(rows[i].name, rows[i].sql_type, i - 1)])

(***************************************************************************)
(* The preamble of data statements                                         *)
(***************************************************************************)

\* A faulty preamble: the table is looked up whether or not its schema is
\* there.
table_of_without_schema_check(database, object) ==
    LET name == FullTableName_try_from(object)
    IN  CASE ~name.ok -> name
          [] ~table_exists(database, name.value) ->
                Failure(table_does_not_exist(name.value))
          [] OTHER -> Success(table_def(database, name.value))

\* What every data statement starts with: the name must be a table name,
\* its schema must exist and then the table.
table_of(database, object) ==
    LET name == FullTableName_try_from(object)
    IN  CASE ~name.ok -> name
          [] ~schema_exists(database, schema(name.value)) ->
                Failure(schema_does_not_exist(schema(name.value)))
          [] ~table_exists(database, name.value) ->
                Failure(table_does_not_exist(name.value))
          [] OTHER -> Success(table_def(database, name.value))

name_of(sql_table) == FullTableName_from(<<sql_table.schema, sql_table.name>>)

(***************************************************************************)
(* The dynamic builder: the static one with columns                        *)
(***************************************************************************)

\* A column of the table by its name.
column(sql_table, name) ==
    LET found == SelectSeq(sql_table.columns, LAMBDA def : has_name(def, name))
    IN  IF found = <<>> THEN Static!Err(column_not_found(name))
        ELSE Static!Ok(Column(name, found[1].ord_num, found[1].sql_type))

\* A name in an expression is a column of the table, or else a parameter,
\* or else an error.
identifier(sql_table, name) ==
    CASE has_column(sql_table, name) -> column(sql_table, name)
      [] Static!parse_param_index(name) # None ->
            Static!Ok(Static!Param(Static!parse_param_index(name)))
      [] OTHER -> Static!Err(column_not_found(name))

RECURSIVE dynamic_build(_, _)

\* As the static builder, but for the identifiers.
dynamic_build(sql_table, root_expr) ==
    CASE root_expr.expr = "Value" -> Static!value(root_expr.value)
      [] root_expr.expr = "Identifier" -> identifier(sql_table, root_expr.value)
      [] root_expr.expr = "BinaryOp" ->
            Static!op_result(binary_operation[root_expr.op],
                             dynamic_build(sql_table, root_expr.left),
                             dynamic_build(sql_table, root_expr.right))
      [] OTHER -> Static!Err(Static!syntax_error)

(***************************************************************************)
(* Data statements                                                         *)
(***************************************************************************)

\* One item of a projection: the wildcard is every column in declared
\* order.
projection_item(sql_table, item) ==
    IF item.item = "Wildcard"
    THEN [i \in DOMAIN sql_table.columns |->
            LET def == sql_table.columns[i]
            IN  Success(Column(def.name, def.ord_num, def.sql_type))]
    ELSE <<lift(dynamic_build(sql_table, item.expr))>>

analyze_select(database, query) ==
    LET found == table_of(database, query.from)
        items == all_or_first_error(FlattenSeq(
                    [i \in DOMAIN query.projection |->
                        projection_item(found.value, query.projection[i])]))
    IN  CASE ~found.ok -> found
          [] ~items.ok -> items
          [] OTHER -> Success(Read(SelectQuery(name_of(found.value), items.value)))

\* Every value of every row goes through the static builder; the names of
\* a column list must be columns of the table.  A statement that fails on
\* both counts is not among those the model analyses.
analyze_insert(database, statement) ==
    LET found == table_of(database, statement.table_name)
        rows == [r \in DOMAIN statement.source |->
                    all_or_first_error(
                        [c \in DOMAIN statement.source[r] |->
                            lift(Static!build_from(statement.source[r][c]))])]
        values == all_or_first_error(rows)
        listed == all_or_first_error(
                    [i \in DOMAIN statement.columns |->
                        lift(column(found.value, statement.columns[i]))])
    IN  CASE ~found.ok -> found
          [] ~values.ok -> values
          [] ~listed.ok -> listed
          [] OTHER -> Success(Write(Insert(InsertQuery(name_of(found.value),
                                                        values.value))))

\* The left side of every assignment must be a column; the right side goes
\* through the dynamic builder.
analyze_update(database, statement) ==
    LET found == table_of(database, statement.table_name)
        names == all_or_first_error(
                    [i \in DOMAIN statement.assignments |->
                        lift(column(found.value, statement.assignments[i].id))])
        values == all_or_first_error(
                    [i \in DOMAIN statement.assignments |->
                        lift(dynamic_build(found.value, statement.assignments[i].value))])
    IN  CASE ~found.ok -> found
          [] ~names.ok -> names
          [] ~values.ok -> values
          [] OTHER ->
                Success(Write(Update(UpdateQuery(
                    name_of(found.value),
                    [i \in DOMAIN statement.assignments |-> statement.assignments[i].id],
                    values.value))))

analyze_delete(database, statement) ==
    LET found == table_of(database, statement.table_name)
    IN  IF ~found.ok THEN found
        ELSE Success(Write(Delete(DeleteQuery(name_of(found.value)))))

(***************************************************************************)
(* Schema changes: names are converted, the catalog is not looked at       *)
(***************************************************************************)

\* A column of CREATE TABLE with its type converted; a type the type
\* system does not take is refused.  Which Feature the error names is not
\* said.
column_info(column_def) ==
    LET sql_type == Types!try_from(column_def.data_type)
    IN  IF sql_type.ok
        THEN Success([name |-> column_def.name, sql_type |-> sql_type.value])
        ELSE Failure(Static!feature_not_supported("DataType"))

\* A statement whose name and whose column types are both refused is not
\* among those the model analyses.
analyze_ddl(statement) ==
    LET schema_names == [i \in DOMAIN statement.names |->
                            SchemaName_try_from(statement.names[i])]
        table_names == [i \in DOMAIN statement.names |->
                            FullTableName_try_from(statement.names[i])]
        names == all_or_first_error(IF statement.object_type = "Schema"
                                    THEN schema_names ELSE table_names)
        column_defs == all_or_first_error(
                            [i \in DOMAIN statement.columns |->
                                column_info(statement.columns[i])])
    IN  CASE ~names.ok -> names
          [] statement.statement = "CreateTable" /\ ~column_defs.ok -> column_defs
          [] statement.statement = "CreateSchema" ->
                Success(DataDefinition(
                    CreateSchemaQuery(names.value[1], statement.if_not_exists)))
          [] statement.statement = "CreateTable" ->
                Success(DataDefinition(
                    CreateTableQuery(names.value[1], column_defs.value,
                                     statement.if_not_exists)))
          [] statement.object_type = "Schema" ->
                Success(DataDefinition(
                    DropSchemasQuery(names.value, statement.cascade, statement.if_exists)))
          [] OTHER ->
                Success(DataDefinition(
                    DropTablesQuery(names.value, statement.cascade, statement.if_exists)))

analyze(database, statement) ==
    CASE statement.statement = "Query" -> analyze_select(database, statement)
      [] statement.statement = "Insert" -> analyze_insert(database, statement)
      [] statement.statement = "Update" -> analyze_update(database, statement)
      [] statement.statement = "Delete" -> analyze_delete(database, statement)
      [] OTHER -> analyze_ddl(statement)

=============================================================================
