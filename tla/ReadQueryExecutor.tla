-------------------------- MODULE ReadQueryExecutor --------------------------
(***************************************************************************)
(* ReadQueryExecutor of read_query/executor: runs a SelectPlan against the *)
(* database it shares with the rest of the engine.  What is selected is    *)
(* abstracted to the names of the columns the rows come with.              *)
(***************************************************************************)
EXTENDS Analyzer

\* read_query_plan::SelectPlan
SelectPlan(full_table_name, columns) == [table |-> full_table_name, columns |-> columns]

\* The plan of an analyzed query: its table and the columns its projection
\* names.  Planning is not among the sources; this is the least a plan of
\* the two fields that execute() reads can be.
select_plan(query) ==
    LET named == SelectSeq(query.projection_items,
                           LAMBDA i : i.tree = "Item" /\ i.item = "Column")
    IN  SelectPlan(query.full_table_name, [i \in DOMAIN named |-> named[i].name])

\* QueryExecution::Selected and QueryExecutionError::SchemaDoesNotExist
Selected(data) == [execution |-> "Selected", data |-> data]
SchemaDoesNotExist(name) == [error |-> "SchemaDoesNotExist", name |-> name]

\* catalog::SqlTable
select(sql_table) == column_names(sql_table)

select_with_columns(sql_table, names) ==
    LET missing == SelectSeq(names, LAMBDA n : ~has_column(sql_table, n))
    IN  IF missing = <<>> THEN Success(names) ELSE Failure(missing[1])

\* Database::work_with hands the table to the closure and returns what the
\* closure returns: for a table that is not there it has nothing to return.
Panic == [ok |-> FALSE, error |-> [error |-> "Panic"]]

\* Every failure of select_with_columns, which is a column the table does
\* not have, is answered as SchemaDoesNotExist of that column's name.
execute(database, plan) ==
    IF ~table_exists(database, plan.table) THEN Panic
    ELSE LET sql_table == table_def(database, plan.table)
             data == select_with_columns(sql_table, plan.columns)
         IN  CASE plan.columns = <<>> -> Success(Selected(select(sql_table)))
               [] data.ok -> Success(Selected(data.value))
               [] OTHER -> Failure(SchemaDoesNotExist(data.error))

=============================================================================
