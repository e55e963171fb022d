----------------------------- MODULE MCSessions -----------------------------
(***************************************************************************)
(* Sessions for model checking: two sessions over the names and the        *)
(* statements of MCDatabase.                                               *)
(***************************************************************************)
EXTENDS Sessions, MCDatabase, TLC

CONSTANTS s1, s2

MCSessionSet == {s1, s2}

SessionSymmetry == Permutations(MCSessionSet)

ab == <<[name |-> "a", sql_type |-> "smallint"], [name |-> "b", sql_type |-> "bigint"]>>

\* Every kind of statement under every flag; the lists of two names are
\* those whose second sub-program another session can get ahead of.
MCSessionChanges ==
    [change : {"CreateSchema"}, schema_name : {"s"}, if_not_exists : BOOLEAN]
    \cup [change : {"DropSchemas"},
          schema_names : {<<"s">>, <<"public", "s">>, <<"s", "public">>},
          cascade : BOOLEAN, if_exists : BOOLEAN]
    \cup [change : {"CreateTable"}, full_table_name : MCTableNames,
          column_defs : {ab}, if_not_exists : BOOLEAN]
    \cup [change : {"DropTables"},
          full_table_names : {<<<<"public", "t">>, <<"s", "t">>>>, <<<<"s", "t">>>>},
          cascade : {FALSE}, if_exists : BOOLEAN]

=============================================================================
