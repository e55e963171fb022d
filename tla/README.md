# TLA+ models of the isomorphicdb query-processing core

This directory holds TLA+ specifications of the parts of isomorphicdb that
decide what a statement means before anything touches disk: the SQL type
lattice, the names of schemas and tables, the planner that turns a schema
change into a program of low-level steps, the interpreter that applies a
planned program to the catalog and the storage, the analysis of data
statements against the catalog, and the executor of a planned read. Every
module is
checked with TLC; `PROJECT.json` lists the runs, maps each definition to the
lines of Rust it stands for, and records what the checks found.

## 1. The system

| Part | Source | State it owns | Operations |
|---|---|---|---|
| SQL type system | `src/entities/types/src/lib.rs` | none (pure values) | `SqlTypeFamily::compare`, `SqlType::family`, `type_id`, `from_type_id`, `chars_len`, `TryFrom<&DataType>`, `Into<PgType>` |
| Names and definitions | `src/entities/definition/src/lib.rs` | none | `FullTableName` and `SchemaName` with `TryFrom<&ObjectName>`, `From`, `Display`; `ColumnDef`, `TableDef` and their lookups |
| DDL planner | `src/data/schema_planner/src/lib.rs` | none | `SystemSchemaPlanner::schema_change_plan` for `CreateSchema`, `DropSchemas`, `CreateTable`, `DropTables` |
| DDL executor, catalog, storage | not among the sources | schema, table and column rows; folders and files, and whether a file holds rows | one handler per `Step` of a `SystemOperation` |
| Static tree builder | `src/query_analyzer/src/static_tree_builder.rs` | none | `build_from`, `inner_build`, `op`, `ident`, `value` |
| Query analyzer | tests only (`src/query_analyzer/src/tests/`) | reads the catalog | analysis of INSERT, UPDATE, DELETE, SELECT |
| Untyped query shapes | `src/data_manipulation/untyped_queries/src/lib.rs` | none | data declarations |
| Read query executor | `src/read_query/executor/src/lib.rs` | a shared handle on the database | `ReadQueryExecutor::execute` |
| Connection supervisor | test only (`src/server/connection/src/tests/connection.rs`) | connection ids and secret keys | `alloc`, `free`, `verify` |

How they interact. A statement is parsed (outside this code). A schema change
goes to the planner, which returns a `SystemOperation`: a `kind`, an optional
`skip_steps_if`, and one list of steps (a *sub-program*) for each object the
statement names. The executor walks the sub-programs in order and each one
step by step; the steps read and write the catalog rows and the storage. The
planner itself never fails and never looks at the catalog: **the order of the
steps is the whole of its contract**, and what that order guarantees only
shows when the program is executed, interrupted and executed again. A data
statement goes to the analyzer, which resolves names against the catalog and
builds expression trees (static trees where only literals and parameters are
allowed); the type system tells it which types combine.

What is hard here. The code is sequential and almost free of state, so the
hard questions are not about threads. They are about (a) a program of several
irreversible steps that may stop after any of them, (b) a statement over
several objects of which a later one is rejected, (c) flags that must agree
with the steps planned beside them (`only_if_empty` and the cascade arm), (d)
small pure functions whose tables must be the inverse or the join of each
other on every input (`type_id`/`from_type_id`, the unparenthesised condition
in `compare`), (e) recursion that rewrites the errors of its children, (f)
two conversions of one parsed name that must agree on what the name is
(`SchemaName::try_from` and `FullTableName::try_from`), (g) a query that
is analysed against one state of the catalog and executed against a later
one, (h) the statements of two sessions whose sub-programs take turns, each
check reading what the other session has just done, and (i) a file left
behind by an interrupted drop, which no check of a plan looks for.

## 2. Modules

| Module | Models | Kind |
|---|---|---|
| `SqlTypes` | the type system | operators |
| `MCSqlTypes` | drives `SqlTypes` over all operand triples and stored column types | model |
| `SchemaPlanner` | the step vocabulary, the statements, `schema_change_plan` | operators |
| `SchemaPlannerTests` | the twelve unit tests of the planner crate, as expected plans | operators |
| `MCSchemaPlanner` | plans every statement of a bounded vocabulary | model |
| `Database` | the executor of a `SystemOperation` over catalog and storage, with crashes | state machine |
| `Catalog` | what schema changes promise the clients of several sessions: each named object created or dropped whole, skipped or refused, and what a crash may leave of the object under way | abstract state machine |
| `MCDatabase` | statements and names for `Database` and for the refinement | model |
| `Sessions` | the executor taking the statements of several sessions in turns, between sub-programs | state machine |
| `MCSessions` | two sessions and their statements | model |
| `Definition` | `FullTableName`, `SchemaName`, `ColumnDef`, `TableDef` and their conversions | operators |
| `UntypedQueries` | the four untyped query shapes and `UntypedWrite` | operators |
| `Analyzer` | the analysis of SELECT, INSERT, UPDATE, DELETE and of schema changes, with the dynamic tree builder | recursive operators |
| `AnalyzerTests` | the forty-one unit tests of the analyzer, as statement, database and expected result | operators |
| `ReadQueryExecutor` | `ReadQueryExecutor::execute` | operators |
| `Engine` | a session of schema changes beside a session that analyses and later executes a SELECT | state machine |
| `MCEngine` | statements, queries and names for `Engine` | model |
| `StaticTree` | `StaticTreeBuilder` | recursive operators |
| `MCStaticTree` | builds every expression of bounded depth | model |

### SqlTypes

A family is a string (`"SmallInt"`, ..., `"Double"`), a type a record with a
`tag` and, by tag, the numeric kind or the string kind and length. `compare`
is translated arm by arm, in the order of the `match`; the condition of the
integral arm is an operator of its own (`int_widens`) with the grouping Rust
gives `&&` and `||`. `try_from` takes the parser's `DataType`; a `Char` or
`Varchar` without length gets 255 (`unwrap_or`). `into_pg_type` yields the
constant `Unreachable` where the code reaches `unreachable!()`; so does
`from_type_id` for an id above 7. `MCSqlTypes` keeps six variables: three
operand families, a parsed data type, the column type derived from it and the
catalog row `(type_id, chars_len)` written for that type.

### SchemaPlanner and SchemaPlannerTests

A step is a record tagged with `step`; the constructors carry the names of the
Rust variants. Each arm of `schema_change_plan` is an operator
(`CreateSchemaPlan`, `DropSchemasPlan`, `CreateTablePlan`, `DropTablesPlan`)
built from the step template of one object (`create_schema_steps`,
`for_schema`, `create_table_steps` with `column_records`, `for_table`).
`DropTablesQuery` has a `cascade` field and the planner does not read it, as
in the code. Names are strings; the step vocabulary and the four query types
live in crates that are not among the sources and are taken from their
description. `SchemaPlannerTests` restates each `#[test]` of the crate as a
pair of a statement and the plan the test expects.

### Database

The executor is not among the sources. `Database` gives each step the meaning
the step vocabulary is described with:

* `CheckExistence` *wants* absence for the object a `Create` makes and
  presence for everything else (the target of a drop, the schema of a table).
  When what it observes differs from what it wants and equals
  `skip_steps_if`, the sub-program ends as `Skipped`; when it differs
  otherwise, `execute` returns `ObjectAlreadyExists` or `ObjectDoesNotExist`.
* `CheckDependants` returns `HasDependants` while the schema has tables;
  `RemoveDependants` removes the schema's table rows and their column rows.
* `CreateFolder`, `CreateFile`, `CreateRecord` add; `RemoveFile`,
  `RemoveRecord`, `RemoveColumns` remove; `RemoveFolder` with `only_if_empty`
  leaves a folder that still holds a file.
* Nothing says what `CreateFile` does when the file is already there, which
  happens only after an interrupted statement. The action allows both things
  it can do: the file is emptied, or it is kept with what it holds.
* An error ends the whole `execute` call; sub-programs applied before it
  stay applied. (The description calls the error "fatal for that
  sub-program"; ending the call is the reading under which a client gets one
  answer for one statement.)
* `Crash` may happen between any two steps: the call in progress is gone,
  rows and storage stay as they are.

A new database holds the schema `public` and its folder
(`DefaultSchemas`), as `InMemoryDatabase::new()` leaves it in the analyzer's
tests.

State: `schemas`, `tables`, `columns` (the rows), `folders`, `files` (the
storage), `written` (the files that hold rows: the rows themselves are not
modelled, and a file counts as written from the moment its table has a row
in the catalog and can be inserted into), `exec` (the call in progress: statement, plan, sub-program, step
index, outcomes so far, and the persistent state at the start of the
sub-program), `last` (the latest answer), and three history variables
(`crashes`, `interrupted`, `replay`) that only properties read. Every step
action includes the move to the next step, the next sub-program or the
return (`Proceed`, `EndSubprogram`, `Return`), so a step and its bookkeeping
are one transition.

Because the plans executed are `schema_change_plan(change)` of
`SchemaPlanner`, every property of `Database` is a property of the planner's
step order under the stated meaning of the steps.

### Catalog and the refinements

`Catalog` says what clients may rely on without knowing the steps. Its
variables are the three sets of rows, the `request` of each session and the
latest `answer`. A statement is served one named object at a time, in the
statement's order; for each object exactly one of three things happens:
`Create_or_Drop` (nothing stands in the way, and the object appears or
disappears in one step, a table with all its columns, a schema under
`CASCADE` with all its tables), `Skip` (the obstacle is the one `IF EXISTS`
or `IF NOT EXISTS` forgives) or `Refuse` (the statement ends with the
obstacle as its error; what it did for earlier names stays). Between two
names of one statement any other session may have a name served.

`Crash` is the fourth thing that can happen. All requests are gone without
an answer, and of the object one of them was at the catalog holds nothing,
all, or one of the states `HalfApplied` lists: a table with the first few
of its columns, a table row whose columns are gone, a schema whose tables
are gone. These are the states the order of the planned steps is meant to
allow; a column without its table or a table without its schema is not
among them.

`Database` implements `Catalog` for one session, crashes included, under
this mapping, defined at the end of `Database`:

| `Catalog` | `Database` |
|---|---|
| `schemas`, `tables`, `columns` | `visible`: the rows as they were when the running sub-program began, the rows themselves when nothing runs |
| `request` of the one session | `served`: the statement in execution, the index of its sub-program and the outcomes so far |
| `answer` | `last` |

The steps inside a sub-program stutter; the step that ends a sub-program is
one step of `Catalog`; a crash is `Crash`, and what the interrupted
sub-program has done by then becomes visible with it. `visible` is the
statement of the executor's description that a sub-program is applied
atomically with respect to readers.

`Catalog` does not promise that a statement can be replayed after a crash:
it lets a `CREATE TABLE` that follows a half-made table be refused. That
claim is made elsewhere and is the subject of `catalog_replay`.

### Sessions

`Sessions` extends `Database` with clients. Its variables are those of
`Database`, `holder` (the session whose statement the executor is applying,
or `None`) and `parked` (for each session, its statement set aside with the
sub-programs done so far, or `None`).

| Action | What it is |
|---|---|
| `Submit(s, change)` | session `s`, with nothing parked, has a statement planned and started (`Execute`) |
| `ApplyStep` | one step of the executor; the holder is released when the call returns |
| `Yield` | between two sub-programs the statement at hand is set aside |
| `Resume(s)` | the executor, idle, takes up the parked statement of `s`; its next sub-program starts from the catalog as it is now |

None of this is code of the repository. The executor of the model applies
one step at a time, so steps of different statements never overlap; what
interleaves are sub-programs. A statement is set aside only between
sub-programs (`BetweenSubprograms`). That granularity is an assumption of
the model: the description promises that a sub-program is atomic toward
concurrent readers, says nothing of concurrent writers, and leaves
concurrency control between sessions out of its scope. Under it `Yield` and
`Resume` are free to happen whenever they can, which covers every schedule
of whole sub-programs. What the run shows is a property of the planner's
programs, that each sub-program is a whole on its own whatever ran before
it, and not a property of a scheduler. The process does not stop in this
module.

`Sessions` implements `Catalog` for its sessions: `request` of a session is
`served` for the holder and the progress of the parked statement for any
other (`requests`). `Yield` and `Resume` stutter.

With two sessions a statement answered without error need not have its
effect when the answer comes: `DROP TABLE public.t, s.t` of one session and
`CREATE TABLE public.t` of another between its two names leave `public.t` in
place.
Isolation across the names of a statement is not claimed anywhere, and
`FinishedChangeTakesEffect` is a property of the single-session runs only.

### Definition and UntypedQueries

A parsed object name is a sequence of identifiers; an identifier is a record
of its `value` and its `quote_style` (`None` or a quote character), and
`ident_to_string` is its `Display` form, quotes included. `to_lowercase` is
a constant function over `Strings`, the names in use, given in the MC module
as a table; it is not the identity (`"S"` folds to `"s"`).

* `FullTableName_try_from` fails for more than two parts, puts a one-part
  name into `public`, and folds the **values** of the identifiers.
* `SchemaName_try_from` folds the **Display form** of the whole object name.
* `to_string` is the `Display` of a `FullTableName`, `schema.table`; it is
  what `TableDoesNotExist` carries.
* `TableDef_new`, `column_names`, `has_column`, `ColumnDef_new`, `has_name`
  are the constructors and lookups of the code.

`UntypedQueries` holds the record constructors of the four query structs.

### Analyzer and AnalyzerTests

The analyzer's implementation is not among the sources; its tests and the
static builder are. `Analyzer` is written from the description of the
analysis and is marked as such in `PROJECT.json`. A database is a record of
`schemas`, `tables` and `columns`. `table_of` is the preamble every data
statement shares: the name must convert, the schema must exist, the table
must exist, in this order, each with its own error. `analyze_select` resolves
each projection item with the dynamic builder (`dynamic_build`: a column
becomes `Column` with its name, its position counted from zero and its type;
`$n` a parameter; anything else `ColumnNotFound`) and expands a wildcard to
the column definitions of the table, one item per definition in order, two
of the same name included. `analyze_insert` sends the values through `StaticTree`
(an instance of that module over the same strings) and requires every listed
column to exist. `analyze_update` resolves the assigned columns and builds the
right-hand sides dynamically; `analyze_delete` is the preamble alone.
`analyze_ddl` builds the schema change from the names without looking at the
catalog; the columns of `CREATE TABLE` go through `column_info`, which
converts the parser's type with `try_from` of `SqlTypes` (an instance of
that module) and refuses the statement with `FeatureNotSupported` when the
type system does not take the type. The types in the catalog, in a
`ColumnDef` and in a `Column` of a projection are therefore `SqlType`
values, not names of types. `all_or_first_error` is the `collect` into a `Result`: the first
failure in order wins.

`AnalyzerTests` restates the forty-one `#[test]` functions of
`src/query_analyzer/src/tests/` (selects, insertions, updates; every
operator class and every kind of literal among them) as records of
a database, a statement and the expected result, with the helpers of the test
files (`with_schema`, `with_table`, `select_of`, `insert_of`, ...) under
their names.

### ReadQueryExecutor

`execute` has two arms: without columns the plan selects all of the table,
with columns it calls `select_with_columns` and passes the data on or, on
failure, wraps the name it got back in `QueryExecutionError::SchemaDoesNotExist`
(line 39). The table is abstracted to the names of its columns in order; the
rows play no part in any property. Three things are not among the sources
and are assumptions stated in the module: `select_plan` (the plan of an
analysed SELECT names the table and the columns of its projection),
`select_with_columns` (fails with the first name the table does not have) and
`Panic` (what `execute` comes to when `work_with` finds no table).

### Engine

`Engine` extends `Database` with a reading session. Its variables are those
of `Database` and `analysis` (the analysed SELECT held by the reader, or
`None`), `stale` (a history variable: the catalog the reader could see has
changed since the analysis) and `reply` (the latest result of `execute`).

| Action | What it is |
|---|---|
| `SubmitSchemaChange(statement)` | a DDL statement is analysed (`analyze_ddl`) and the schema change handed to `Execute` |
| `RefuseSchemaChange(statement)` | the analysis fails (a name with more parts than the object has, a column of a type that is not supported); the error is the answer |
| `ApplyStep` | one step of the executor, `Step` of `Database` |
| `AnalyzeQuery(query)` | a SELECT is analysed against `snapshot`, the catalog a reader sees |
| `RefuseQuery(query)` | the analysis fails; the error is the reply |
| `ExecuteQuery` | the held query is planned and executed against the `snapshot` of now |

Statements enter as parsed statements, with identifiers as written, so the
same schema can be named `s`, `S` or `"s"`, and the names a schema change
records go through `SchemaName_try_from` while those of tables and queries go
through `FullTableName_try_from`, as in the code.

### StaticTree

An expression is a record tagged `Value`, `Identifier`, `BinaryOp` or anything
else. `value` maps the seven variants of a parsed literal, `ident` asks
`parse_param_index`, `op` builds **both** operands and then matches on the
pair (`op_result`), `inner_build` dispatches and reports a syntax error for
any other expression. Literal payloads are abstracted to their variant.
`parse_param_index` and the operator table are constants of the module; their
code is not among the sources.

## 3. Runs

| Run | Module / cfg | Result | Distinct states |
|---|---|---|---|
| `types` | `MCSqlTypes` / `MCSqlTypes.cfg` | holds | 57,624 |
| `planner` | `MCSchemaPlanner` / `MCSchemaPlanner.cfg` | holds | 132 |
| `planner_first_check` | `MCSchemaPlanner` / `MCSchemaPlannerFirstCheck.cfg` | violated | — |
| `catalog_safety` | `MCDatabase` / `MCDatabase.cfg` | holds | 1,769,315 |
| `catalog_refinement` | `MCDatabase` / `MCDatabaseRefinement.cfg` | holds | 903,680 |
| `catalog_replay` | `MCDatabase` / `MCDatabaseReplay.cfg` | violated | — |
| `catalog_orphan` | `MCDatabase` / `MCDatabaseOrphan.cfg` | violated | — |
| `sessions` | `MCSessions` / `MCSessions.cfg` | holds | 907,780 |
| `engine` | `MCEngine` / `MCEngine.cfg` | holds | 299,838 |
| `engine_quoted_names` | `MCEngine` / `MCEngineQuotedNames.cfg` | violated | — |
| `engine_read_error` | `MCEngine` / `MCEngineReadError.cfg` | violated | — |
| `static_tree` | `MCStaticTree` / `MCStaticTree.cfg` | holds | 256,058 |

Run one with `tlc -workers 2 -config MCDatabase.cfg MCDatabase`.

### types

* `CompareIsWideningJoin`: on every pair of families `compare` succeeds
  exactly when the two are comparable and then returns the wider one, in
  either argument order. This is what the ungrouped `&&`/`||` of the integral
  arm has to deliver.
* `CompareIsAssociative`: where `compare` of `a, b` and of `b, c` both
  succeed, folding it over the three operands gives the same result
  whichever two are compared first; the type of `a + b + c` does not depend
  on how the expression nests. Triples with an incomparable pair among the
  first comparisons are not covered.
* `TypeIdRoundTrip`: the row the catalog holds rebuilds the type it was
  written for, for every type and the lengths 0, 5 and 255.
* `DdlTypesAreWireEncodable`: no type that `try_from` accepts reaches the
  `unreachable!()` of the wire conversion.

### planner

* `PlannerPassesItsUnitTests`: the model of the planner returns, for the
  statement of each of the crate's twelve tests, the plan the test spells
  out. This ties the translation of the planner to the code's own oracle.
* `ChecksPrecedeMutations`: in every sub-program all checks precede the
  first mutation.
* `OneSubprogramPerTarget`: one non-empty sub-program per named object, in
  the statement's order, touching only that object or its schema.

### catalog_safety (two crashes)

* `CatalogBackedByStorage`: at every step and after every crash a schema row
  has its folder and a table row its file.
* `NoDanglingRows`: column rows have a table row, table rows a schema row.
* `QuiescentStorageMirrorsCatalog`: in crash-free histories storage equals
  the catalog whenever no statement runs.
* `FinishedChangeTakesEffect`: a statement answered without error has its
  effect, whatever crashes and statements came before it.
* `RejectedSubprogramChangesNothing` (action property): a skipped or failed
  sub-program has changed nothing since it began.
* `TablesVanishOnlyOnRequest` (action property): a table row goes only under
  a `DROP TABLE` naming it or a `DROP SCHEMA ... CASCADE` naming its schema.

### catalog_refinement (one crash)

* `ImplementsCatalog`: every behaviour of `Database`, seen through `visible`,
  `served` and `last`, is a behaviour of `Catalog`. It fails for a planner
  that leaves out a check (a table created in a schema that is not there),
  orders the steps of a sub-program so that an error comes after a mutation,
  drops a schema without its tables, or removes a table's row before its
  column rows, which only a crash between the two shows.

### sessions (two sessions, no crash)

* `SessionsImplementCatalog`: every behaviour of `Sessions`, seen through
  `visible`, `requests` and `last`, is a behaviour of `Catalog`: each
  sub-program does what `Catalog` says of its object as the object is found
  at that moment, after whatever the other session did in between. It
  fails for a plan of `CREATE TABLE` without the check of the schema. The
  invariants of `catalog_safety` are not checked again here: this run has
  no crash, and the turns it adds are the model's own.

### engine

* `EngineTypeOK`: the type invariant, including that a held analysis places
  every column at a position inside its table.
* `UnquotedSchemasAreFound`: a schema created under a name written without
  quotes, in any case, is found by every later statement that names it
  without quotes, in any case.
* `UnqualifiedMeansPublic`: a table name of one part is analysed as the table
  of that name in `public`, with the same result as the qualified name.
* `AnalyzerPassesItsUnitTests`: the analysis returns what each of the
  forty-one tests expects, with the test's database laid beside whatever
  the catalog of the engine holds at the time, so a lookup that reads more
  than the objects it is asked about shows.
* `AnalysedColumnsAreWireEncodable`: every column in the projection a
  reader holds has a type `into_pg_type` has an arm for. The type has
  passed through `try_from` in the analysis of `CREATE TABLE`, the column
  records of the plan, the executor's `CreateRecord` and the listing of the
  table's columns; `types` checks the conversion alone, this run the whole
  path. With `try_from` letting `REAL` in, `CREATE TABLE t (a REAL)`
  followed by `SELECT * FROM t` reaches the `unreachable!()`.
* `OnlyStaleReadsFail` (action property): an execution fails only if the
  catalog the reader sees changed between analysis and execution.

### static_tree

* `BuildsExactlyTheStaticExpressions`: the builder succeeds exactly on the
  expressions all of whose leaves are supported literals or parameters.
* `FailureNamesOutermostOperator`: a failure under a binary operator is
  reported as `UndefinedFunction` of the root operator, whichever operand
  failed and why.

### The five runs that are violated

* `engine_read_error` / `MissingSchemaErrorNamesASchema`. An error
  `SchemaDoesNotExist(name)` should carry the name of a schema. TLC finds,
  in 22 steps: `CREATE TABLE t (a, b)`, `SELECT * FROM t` analysed (the
  wildcard is expanded to `a, b` at analysis), `DROP TABLE t`,
  `CREATE TABLE t (a)`, execution. `select_with_columns`
  fails with `b` and line 39 reports `SchemaDoesNotExist("b")`; `public` and
  `public.t` are both there. The arm needs an error of its own for a missing
  column.
* `engine_quoted_names` / `EverySchemaIsFound`. Names are described as
  lowercased wherever they are written. After `CREATE SCHEMA "s"` the catalog
  holds a schema whose name includes the quotes, because
  `SchemaName::try_from` folds the `Display` form of the object name, and
  `CREATE TABLE "s".t` or a SELECT from it looks for `s`, because
  `FullTableName::try_from` folds the identifier values. The schema cannot be
  used under the name it was created with.
* `catalog_replay` / `ReplayedCreateTableHasItsColumns`. The planner is
  described as producing a *replayable* program. TLC finds: `CREATE SCHEMA`,
  then `CREATE TABLE` with columns, a crash after `CreateRecord(Table)` and
  before the column rows, the same `CREATE TABLE` again. The replay is
  rejected with `ObjectAlreadyExists` (or skipped under `IF NOT EXISTS`, and
  then answered as a success) and the table keeps no columns, or a prefix of
  them. The table row is written before the column rows behind an existence
  check of the table; writing the table row last would make the replay
  complete the table.
* `catalog_orphan` / `CreatedTableStartsEmpty`. Catalog rows are removed
  before the file so that a crash between the two leaves the file orphaned,
  "recoverable by GC", rather than the catalog naming a table that is not
  there. TLC finds, in 15 states: `CREATE TABLE public.t`,
  `DROP SCHEMA public CASCADE` interrupted after `RemoveDependants`,
  `CREATE TABLE public.t` again. The checks of the second `CREATE TABLE`
  read the catalog and pass; `CreateFile` meets the file of the dropped
  table, and where it keeps an existing file the new table starts with the
  old rows. Nothing in the plans looks for an orphan, and no collector is
  described that would run before the name is used again. Either
  `CreateFile` must be specified to empty a file it finds, or the plan needs
  a step that does.
* `planner_first_check` / `FirstCheckIsOfTarget`. Plans are described as
  beginning every sub-program with a `CheckExistence` of its target. For
  tables the first check is of the parent schema and the table's is second.
  The unit tests pin the code's order, and the order is the sensible one;
  the description is imprecise.

`PROJECT.json` also records three observations that no run is spent on.
`CREATE TABLE` with two columns of one name plans a column record for each,
and nothing says what the catalog makes of the second.
`DROP TABLE ... CASCADE` plans the same steps as `DROP TABLE`: the flag is
not read. And `SqlType::family` reports `Integer` for all three integral
types and `Real` for both floats, while `compare` tells the widths apart:
comparing the families of `big_int` and `small_int` yields `Integer`, which
is narrower than `big_int`. Which granularity typed expressions should carry
is an open question of the description itself.

## 4. Bounds

| Bound | Value | Why it is enough |
|---|---|---|
| `MCLens` (string lengths) | 0, 5, 255 | the default, the smallest and an ordinary length; lengths are only carried |
| schemas in `MCSchemaPlanner` | `schema`, `other_schema` | the names of the unit tests; lists need two distinct names |
| name lists | length 1 and 2, repetitions included | a plan is built per name, independently; two names show order and duplicates |
| column lists | 0, 1, 2 columns | empty loop, one turn, and a crash between two turns |
| `MCSchemaNames` | `public`, `s` | a drop of one schema beside an untouched one |
| `MCTableNames` | one table per schema | table steps never look at a sibling table; `RemoveDependants` works per schema |
| `MaxCrashes` | 2 (safety), 1 (refinement, replay, orphan) | one crash leaves every half-done state, and the statements after it run over what it left; the second one hits a statement that runs over what the first left |
| `MaxCrashes` in `sessions` and `engine` | 0 | what these runs ask is asked of a running system; crashes are covered for one session |
| `MCSessionSet` | two sessions, a symmetry set | one statement between two sub-programs of another is all the run is about; the sessions differ in nothing but their name |
| `MCSessionChanges` | 16 statements: `CREATE SCHEMA s`, `DROP SCHEMA` of `s`, of `public, s` and of `s, public`, `CREATE TABLE` of either table with two columns, `DROP TABLE` of `s.t` and of `public.t, s.t`, each with every flag | every kind of statement and every flag, and lists of two names so that there is a place to take turns; repeated names and tables of no or one column add nothing between sessions and are covered by `catalog_safety`. With the full set of `MCSchemaChanges` the state space exceeds ten million states |
| `MCSchemaStatements` | `CREATE SCHEMA` of `s`, `S`, `"s"` and of a two-part name; `DROP SCHEMA s CASCADE`; `CREATE TABLE t` with one column (`SMALLINT`), with two (the second a `VARCHAR` without length) and with one of type `REAL`; `CREATE TABLE S.t`, one of three parts; `DROP TABLE t` | every spelling of one schema, one table whose columns can change between two reads, and each way of being refused |
| `MCQueries` | `SELECT *`, a column, a literal from `t`; `SELECT *` from `S.t` and from a three-part name | each arm of `execute`, each error of the preamble |
| `MCbinary_operation` in `engine` | one operator of each of the six classes (arithmetic, comparison, logical, bitwise, string, pattern matching) | the operators the analyzer's tests use; the builders treat every operator alike but for the name in the tree |
| `MCto_lowercase` | `S` to `s`, everything else to itself | one name that folding changes and names it leaves alone, quoted ones among them |
| `MaxDepth` of expressions | 2 | an operator under an operator on either side: the error of a grandchild is rewritten twice |

The catalog model has no counters that grow: its state space is finite
without further guards, and TLC explores all of it.

## 5. Fairness

No specification assumes fairness and no run checks a liveness property.
The code at hand is made of functions that return: the planner, the
conversions, the tree builder and `execute` of the read executor have no
loop that waits and no scheduler. What runs them, the executor of schema
changes and whatever hands statements to it, is not among the sources, so
a claim that a statement in progress eventually ends would be a claim about
the loop of the model and about a fairness the model itself would have to
assume. `Database`, `Sessions` and `Engine` are safety specifications.

`MCStaticTree` is checked without deadlock detection: the builder returns
once and is done. The `Engine` runs are checked without it as well.
`Database` and `Sessions` never stop, which `catalog_safety` and `sessions`
check.

## 6. What is not modelled

* The `Display` implementations of the types and the messages of the naming
  errors: wording only. The `Display` of names is modelled, since errors
  carry it and `SchemaName::try_from` folds it.
* The analyzer's implementation, the catalog's `SqlTable` and `work_with`,
  and the planning of a SELECT: not among the sources. They are written from
  the description or stated as assumptions, and the analysis is held
  against the unit tests that are among the sources.
* The typed trees that follow the analysis (type inference and coercion)
  and the execution of INSERT, UPDATE and DELETE: neither is among the
  sources nor described beyond the shapes in `UntypedQueries`.
* What becomes of two columns of one name in a `CREATE TABLE`: the planner
  emits a column record for each and nothing says what the catalog does
  with the second. The models keep both; the engine's statements declare
  no such table.
* Payloads of literals and the rows of tables: no property tells them apart.
* The connection supervisor and the wire protocol: declared out of scope by
  the description; of the supervisor only a test of the request receiver
  is among the sources, which allocates one connection id and shows nothing
  of `free` or `verify`.
* The rows of a file beyond whether there are any, and the collection of
  orphaned files: a collector is mentioned and not described.
* How the executor schedules sessions, and concurrency control between
  them, which the description names as a non-goal. `Sessions` lets every
  schedule happen.
* Crashes while two sessions have statements under way, and a reader beside
  two writing sessions: each pair of these is checked, the three together
  are beyond what TLC explores in minutes (two sessions with one crash pass
  three and a half million distinct states in five minutes without an end
  in sight, with the statements of `MCSessionChanges`).

## 7. Roadmap

In the order planned:

1. The writes of the analyzer (INSERT, UPDATE, DELETE) as actions of
   `Engine`, with a table dropped between analysis and execution, and with
   them rows written into `written` files by a step of their own, once the
   execution of writes is at hand.
2. Crashes in `Sessions`, with a set of statements small enough for TLC:
   one kind of statement per run.
3. A collector of orphaned files, once it is described, and the property
   that it never removes the file of a table that is being created.
4. The connection supervisor (allocation, reuse and verification of ids and
   keys), once more than its test is at hand.
