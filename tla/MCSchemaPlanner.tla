--------------------------- MODULE MCSchemaPlanner ---------------------------
(***************************************************************************)
(* SchemaPlanner for model checking.  The planner is handed one            *)
(* SchemaChange after another, over the names of its own unit tests, and   *)
(* the plan it returns is held as the state.                               *)
(***************************************************************************)
EXTENDS SchemaPlannerTests, SequencesExt

Schemas == {SCHEMA, OTHER_SCHEMA}
Tables == {TABLE, OTHER_TABLE}
FullTableNames == Schemas \X Tables

ColumnDefs == {<<>>, <<col_1>>, <<col_1, col_2>>}

\* The non-empty lists of at most two members of S.
Lists(S) == SeqOf(S, 2) \ {<<>>}

CreateSchemaQueries ==
    [change : {"CreateSchema"}, schema_name : Schemas, if_not_exists : BOOLEAN]
DropSchemasQueries ==
    [change : {"DropSchemas"}, schema_names : Lists(Schemas),
     cascade : BOOLEAN, if_exists : BOOLEAN]
CreateTableQueries ==
    [change : {"CreateTable"}, full_table_name : FullTableNames,
     column_defs : ColumnDefs, if_not_exists : BOOLEAN]
DropTablesQueries ==
    [change : {"DropTables"}, full_table_names : Lists(FullTableNames),
     cascade : BOOLEAN, if_exists : BOOLEAN]

SchemaChange == CreateSchemaQueries \cup DropSchemasQueries
                    \cup CreateTableQueries \cup DropTablesQueries

VARIABLES schema_change,    \* the statement handed to the planner
          plan              \* the SystemOperation it returned

vars == <<schema_change, plan>>

Init ==
    /\ schema_change = CreateSchemaQuery(SCHEMA, FALSE)
    /\ plan = schema_change_plan(schema_change)

Plan(query) ==
    /\ schema_change' = query
    /\ plan' = schema_change_plan(query)

Next == \E query \in SchemaChange : Plan(query)

Spec == Init /\ [][Next]_vars

-----------------------------------------------------------------------------
\* The steps a plan may hold, over the names in use.
Steps ==
    [step : {"CheckExistence", "CheckDependants", "RemoveDependants"},
     system_object : {"Schema"}, object_name : {<<s>> : s \in Schemas}]
    \cup [step : {"CheckExistence"}, system_object : {"Table"},
          object_name : FullTableNames]
    \cup [step : {"CreateFolder"}, name : Schemas]
    \cup [step : {"RemoveFolder"}, name : Schemas, only_if_empty : BOOLEAN]
    \cup [step : {"CreateFile", "RemoveFile"}, folder_name : Schemas, name : Tables]
    \cup [step : {"RemoveColumns"}, schema_name : Schemas, table_name : Tables]
    \cup [step : {"CreateRecord", "RemoveRecord"},
          record : [record : {"Schema"}, schema_name : Schemas]
                   \cup [record : {"Table"}, schema_name : Schemas, table_name : Tables]]
    \cup [step : {"CreateRecord"},
          record : [record : {"Column"}, schema_name : Schemas, table_name : Tables,
                    column_name : {"col_1", "col_2"}, sql_type : {"small_int", "big_int"}]]

TypeOK ==
    /\ schema_change \in SchemaChange
    /\ plan.kind \in [action : {"Create", "Drop"}, system_object : {"Schema", "Table"}]
    /\ plan.skip_steps_if \in {"Exists", "NotExists", None}
    /\ \A i \in DOMAIN plan.steps : \A j \in DOMAIN plan.steps[i] :
            plan.steps[i][j] \in Steps

\* Every unit test of the planner passes: for the statement a test plans,
\* schema_change_plan returns the SystemOperation the test spells out.
PlannerPassesItsUnitTests ==
    \A test \in UnitTests : schema_change = test.query => plan = test.plan

IsCheck(s) == s.step \in {"CheckExistence", "CheckDependants"}

\* In every sub-program of every plan the checks come first: once a step
\* has created or removed something, no later step of the sub-program can
\* still reject it.  This is what lets an executor fail or skip a
\* sub-program without undoing anything.
ChecksPrecedeMutations ==
    \A i \in DOMAIN plan.steps :
        \A j, k \in DOMAIN plan.steps[i] :
            (j < k /\ IsCheck(plan.steps[i][k])) => IsCheck(plan.steps[i][j])

\* The objects a statement names, in the order it names them.
Targets(query) ==
    CASE query.change = "CreateSchema" -> <<<<query.schema_name>>>>
      [] query.change = "DropSchemas" ->
            [i \in DOMAIN query.schema_names |-> <<query.schema_names[i]>>]
      [] query.change = "CreateTable" -> <<query.full_table_name>>
      [] query.change = "DropTables" -> query.full_table_names

\* The schema and, where it has one, the table a step works on.
Touched(s) ==
    CASE s.step \in {"CheckExistence", "CheckDependants", "RemoveDependants"} ->
            s.object_name
      [] s.step \in {"CreateFolder", "RemoveFolder"} -> <<s.name>>
      [] s.step \in {"CreateFile", "RemoveFile"} -> <<s.folder_name, s.name>>
      [] s.step = "RemoveColumns" -> <<s.schema_name, s.table_name>>
      [] s.record.record = "Schema" -> <<s.record.schema_name>>
      [] OTHER -> <<s.record.schema_name, s.record.table_name>>

\* A plan has one sub-program for each object the statement names, in the
\* statement's order, and the steps of a sub-program work on that object or
\* on the schema it lives in, never on another object of the list: the
\* sub-programs of DROP a, b can be skipped and replayed one by one.
OneSubprogramPerTarget ==
    LET targets == Targets(schema_change)
    IN  /\ Len(plan.steps) = Len(targets)
        /\ \A i \in DOMAIN plan.steps :
                /\ plan.steps[i] # <<>>
                /\ \A j \in DOMAIN plan.steps[i] :
                        IsPrefix(Touched(plan.steps[i][j]), targets[i])
                /\ \E j \in DOMAIN plan.steps[i] :
                        Touched(plan.steps[i][j]) = targets[i]

\* What is stated of every plan: each sub-program begins with a
\* CheckExistence, and the object that first CheckExistence looks up is the
\* sub-program's target.
FirstCheckIsOfTarget ==
    \A i \in DOMAIN plan.steps :
        /\ plan.steps[i][1].step = "CheckExistence"
        /\ plan.steps[i][1].object_name = Targets(schema_change)[i]

=============================================================================
