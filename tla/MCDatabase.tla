----------------------------- MODULE MCDatabase -----------------------------
(***************************************************************************)
(* Database for model checking: two schemas (the default one and another), *)
(* one table name, tables of no, one and two columns, and every statement  *)
(* the four kinds of SchemaChange allow over them, with lists of one and   *)
(* two names, repeated names included.                                     *)
(***************************************************************************)
EXTENDS Database

MCSchemaNames == {"public", "s"}

MCDefaultSchemas == {"public"}

MCTableNames == MCSchemaNames \X {"t"}

\* Column types are carried through the plan to the Column row untouched.
MCColumnDefs ==
    { <<>>,
      <<[name |-> "a", sql_type |-> "smallint"]>>,
      <<[name |-> "a", sql_type |-> "smallint"], [name |-> "b", sql_type |-> "bigint"]>> }

\* The non-empty lists of at most two members of S.
Lists(S) == SeqOf(S, 2) \ {<<>>}

MCSchemaChanges ==
    [change : {"CreateSchema"}, schema_name : MCSchemaNames, if_not_exists : BOOLEAN]
    \cup [change : {"DropSchemas"}, schema_names : Lists(MCSchemaNames),
          cascade : BOOLEAN, if_exists : BOOLEAN]
    \cup [change : {"CreateTable"}, full_table_name : MCTableNames,
          column_defs : MCColumnDefs, if_not_exists : BOOLEAN]
    \cup [change : {"DropTables"}, full_table_names : Lists(MCTableNames),
          cascade : BOOLEAN, if_exists : BOOLEAN]

=============================================================================
