------------------------------- MODULE Engine -------------------------------
(***************************************************************************)
(* The engine as its parts work together: statements are analysed against  *)
(* the catalog, schema changes are planned and executed step by step, and  *)
(* an analysed SELECT is executed later by ReadQueryExecutor.              *)
(*                                                                         *)
(* Two sessions share the database.  One submits schema changes; the other *)
(* analyses a SELECT and executes it in a second step, so that schema      *)
(* changes may take effect in between.  Both see the catalog as the last   *)
(* finished sub-program left it (`visible'), which is what the executor    *)
(* of schema changes is to guarantee to concurrent readers.                *)
(***************************************************************************)
EXTENDS Database, ReadQueryExecutor

CONSTANTS SchemaStatements,     \* the schema changes the first session submits
          Queries               \* the SELECTs the second session asks

VARIABLES analysis,     \* the SelectQuery the reading session holds, or None
          stale,        \* the visible catalog has changed since that analysis
          reply         \* the last answer to the reading session

reading == <<analysis, stale, reply>>
engine == <<vars, reading>>

\* The catalog as a statement sees it.
snapshot == [schemas |-> visible[1], tables |-> visible[2], columns |-> visible[3]]

EngineInit == Init /\ analysis = None /\ stale = FALSE /\ reply = None

(***************************************************************************)
(* The session of schema changes                                           *)
(***************************************************************************)

\* A statement whose names are well formed is planned and started.
SubmitSchemaChange(statement) ==
    LET analysed == analyze(snapshot, statement)
    IN  /\ analysed.ok
        /\ Execute(analysed.value.change)
        /\ UNCHANGED reading

\* A statement with a name of too many parts is answered at once.
RefuseSchemaChange(statement) ==
    LET analysed == analyze(snapshot, statement)
    IN  /\ ~Running
        /\ ~analysed.ok
        /\ last' = [change |-> None, outcomes |-> <<>>, error |-> analysed.error.error]
        /\ UNCHANGED <<persistent, exec, history, reading>>

\* The executor takes a step of the running plan.
ApplyStep ==
    /\ Step
    /\ stale' = (analysis # None /\ (stale \/ snapshot' # snapshot))
    /\ UNCHANGED <<analysis, reply>>

(***************************************************************************)
(* The reading session                                                     *)
(***************************************************************************)

\* A SELECT that resolves is held for execution.
AnalyzeQuery(query) ==
    LET analysed == analyze(snapshot, query)
    IN  /\ analysis = None
        /\ analysed.ok
        /\ analysis' = analysed.value.query
        /\ stale' = FALSE
        /\ UNCHANGED <<vars, reply>>

\* A SELECT that does not resolve is answered with the analysis error.
RefuseQuery(query) ==
    LET analysed == analyze(snapshot, query)
    IN  /\ analysis = None
        /\ ~analysed.ok
        /\ reply' = analysed
        /\ UNCHANGED <<vars, analysis, stale>>

\* The held query is planned and executed against the catalog as it is now.
ExecuteQuery ==
    /\ analysis # None
    /\ reply' = execute(snapshot, select_plan(analysis))
    /\ analysis' = None
    /\ stale' = FALSE
    /\ UNCHANGED vars

EngineNext ==
    \/ \E statement \in SchemaStatements :
            SubmitSchemaChange(statement) \/ RefuseSchemaChange(statement)
    \/ ApplyStep
    \/ \E query \in Queries : AnalyzeQuery(query) \/ RefuseQuery(query)
    \/ ExecuteQuery

EngineSpec == EngineInit /\ [][EngineNext]_engine

-----------------------------------------------------------------------------
(***************************************************************************)
(* Properties                                                              *)
(***************************************************************************)

\* The leaves of the trees of a projection.
Items ==
    [tree : {"Item"}, item : {"Column"}, name : STRING, index : 0..1,
     sql_type : Types!SqlType]
    \cup [tree : {"Item"}, item : {"Const"}, value : STRING]
    \cup [tree : {"Item"}, item : {"Param"}, index : Nat]

EngineTypeOK ==
    /\ analysis # None =>
            /\ analysis.full_table_name \in TableNames
            /\ analysis.projection_items \in Seq(Items)
    /\ stale \in BOOLEAN
    /\ stale => analysis # None
    /\ reply # None =>
            /\ reply.ok \in BOOLEAN
            /\ reply.ok => reply.value.data \in Seq(STRING)
            /\ ~reply.ok => reply.error.error \in
                    {"TableNamingError", "SchemaDoesNotExist", "TableDoesNotExist",
                     "ColumnNotFound", "Panic"}

\* What a reader is answered is described to the client column by column,
\* each type through Into<PgType>, which has no arm for the floating
\* types.  No column that an analysed SELECT holds reaches the
\* unreachable!(): a type gets into the catalog only through the
\* conversion of CREATE TABLE (SqlType::try_from), the planner's column
\* records and the executor, and that conversion lets no floating type in.
AnalysedColumnsAreWireEncodable ==
    analysis # None =>
        \A i \in DOMAIN analysis.projection_items :
            LET item == analysis.projection_items[i]
            IN  item.item = "Column"
                    => Types!into_pg_type(item.sql_type) # Types!Unreachable

\* A SELECT that passed analysis fails in execution, or brings the process
\* down, only if the catalog changed in between: whatever execute() looks
\* up on a catalog the analysis saw, the analysis has looked up before.
OnlyStaleReadsFail ==
    [][(analysis # None /\ analysis' = None /\ ~stale) => reply'.ok]_engine

\* A schema that exists under the name an identifier gives it in CREATE
\* SCHEMA (SchemaName::try_from) is found when the same identifier
\* qualifies a table (FullTableName::try_from).
SchemaFoundUnderItsName(ident) ==
    LET schema_name == SchemaName_try_from(<<ident>>).value
        full_table_name == FullTableName_try_from(<<ident, Ident("t", None)>>).value
    IN  schema_exists(snapshot, schema_name)
            => schema_exists(snapshot, schema(full_table_name))

Idents == UNION {{q.from[i] : i \in DOMAIN q.from} : q \in Queries}
          \cup UNION {UNION {{n[i] : i \in DOMAIN n} : n \in Range(s.names)}
                        : s \in SchemaStatements}

\* The two conversions agree on every identifier written without quotes,
\* in whatever case.
UnquotedSchemasAreFound ==
    \A ident \in Idents : ident.quote_style = None => SchemaFoundUnderItsName(ident)

\* The two conversions agree on every identifier: all identifiers are
\* folded the same way wherever they are written.
EverySchemaIsFound == \A ident \in Idents : SchemaFoundUnderItsName(ident)

\* A table name without a schema means the table of that name in public:
\* the statement is analysed as the one with the qualified name is, to the
\* same query or the same error.
UnqualifiedMeansPublic ==
    \A query \in Queries :
        Len(query.from) = 1 =>
            analyze(snapshot, query)
                = analyze(snapshot, [query EXCEPT !.from = <<Ident("public", None)>> \o @])

\* QueryExecutionError::SchemaDoesNotExist names a schema.
MissingSchemaErrorNamesASchema ==
    (reply # None /\ ~reply.ok /\ reply.error.error = "SchemaDoesNotExist")
        => reply.error.name \in SchemaNames

=============================================================================
