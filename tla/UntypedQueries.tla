--------------------------- MODULE UntypedQueries ---------------------------
(***************************************************************************)
(* The shapes the analyzer hands on for data statements                    *)
(* (data_manipulation/untyped_queries): a statement with its names         *)
(* resolved and its expressions as untyped trees.                          *)
(***************************************************************************)

InsertQuery(full_table_name, values) ==
    [full_table_name |-> full_table_name, values |-> values]

UpdateQuery(full_table_name, column_names, assignments) ==
    [full_table_name |-> full_table_name, column_names |-> column_names,
     assignments |-> assignments]

SelectQuery(full_table_name, projection_items) ==
    [full_table_name |-> full_table_name, projection_items |-> projection_items]

DeleteQuery(full_table_name) == [full_table_name |-> full_table_name]

\* enum UntypedWrite
Insert(query) == [write |-> "Insert", query |-> query]
Update(query) == [write |-> "Update", query |-> query]
Delete(query) == [write |-> "Delete", query |-> query]

=============================================================================
