------------------------------ MODULE Database ------------------------------
(***************************************************************************)
(* The catalog that executes the plans of SchemaPlanner: the rows of its   *)
(* system tables (schemas, tables, columns) and the storage beneath them   *)
(* (a folder for each schema, a file for each table).  execute() walks a   *)
(* SystemOperation sub-program by sub-program and step by step; the        *)
(* process may stop between any two steps, and what is already written     *)
(* stays written.                                                          *)
(*                                                                         *)
(* The executor's source is not part of the repository's src/: the steps   *)
(* mean what the specification's step vocabulary and failure semantics say *)
(* (spec.md, sections 3 and 4.1).  The plans it runs are the planner's.    *)
(***************************************************************************)
EXTENDS SchemaPlanner, FiniteSets, SequencesExt

CONSTANTS SchemaNames,      \* the schema names clients use
          DefaultSchemas,   \* the schemas a new database comes with
          TableNames,       \* the full table names clients use
          SchemaChanges,    \* the statements they submit
          MaxCrashes        \* how often the process may stop mid-statement

ASSUME /\ DefaultSchemas \subseteq SchemaNames
       /\ TableNames \subseteq SchemaNames \X UNION {{table(t)} : t \in TableNames}
       /\ MaxCrashes \in Nat

VARIABLES schemas,      \* names with a Schema row
          tables,       \* full names with a Table row
          columns,      \* the Column rows of each table, in insertion order
          folders,      \* storage: the folders
          files,        \* storage: <<folder, file>> pairs
          written,      \* storage: the files that hold rows.  The rows are
                        \* not modelled: a file counts as written from the
                        \* moment its table has a row and can be inserted into
          exec,         \* the execute() call in progress, or None
          last,         \* what the latest execute() returned, or None
          crashes,      \* crashes so far
          interrupted,  \* the statement a sub-program of which the latest
                        \* crash left half-done, or None
          replay        \* the statement in progress or just finished is the
                        \* interrupted one, submitted again after the crash

persistent == <<schemas, tables, columns, folders, files, written>>
history == <<crashes, interrupted, replay>>
vars == <<persistent, exec, last, history>>

Running == exec # None
step == exec.plan.steps[exec.sub][exec.pc]

(***************************************************************************)
(* The control of execute(): moving through the plan                       *)
(***************************************************************************)

\* execute() returns: with an error, or with the outcome of each
\* sub-program.
Return(outcomes, error) ==
    /\ exec' = None
    /\ last' = [change |-> exec.change, outcomes |-> outcomes, error |-> error]

\* The current sub-program is over; the next one starts from what the
\* catalog and the storage are now, and after the last one execute() returns.
EndSubprogram(outcome) ==
    IF exec.sub < Len(exec.plan.steps)
    THEN /\ exec' = [exec EXCEPT !.sub = @ + 1, !.pc = 1,
                                 !.outcomes = Append(@, outcome),
                                 !.before = persistent']
         /\ UNCHANGED last
    ELSE Return(Append(exec.outcomes, outcome), None)

\* The current step is done.
Proceed ==
    IF exec.pc < Len(exec.plan.steps[exec.sub])
    THEN exec' = [exec EXCEPT !.pc = @ + 1] /\ UNCHANGED last
    ELSE EndSubprogram("Applied")

\* A client's statement arrives, planned by SystemSchemaPlanner.
Execute(change) ==
    /\ ~Running
    /\ exec' = [change |-> change, plan |-> schema_change_plan(change),
                sub |-> 1, pc |-> 1, outcomes |-> <<>>, before |-> persistent]
    /\ replay' = (change = interrupted)
    /\ interrupted' = None
    /\ UNCHANGED <<persistent, last, crashes>>

(***************************************************************************)
(* Existence and dependants checks                                         *)
(***************************************************************************)

TablesOf(schema_name) == {t \in TableNames : schema(t) = schema_name}

Exists(s) ==
    IF s.system_object = "Schema" THEN s.object_name[1] \in schemas
                                  ELSE <<s.object_name[1], s.object_name[2]>> \in tables

ObjectState(present) == IF present THEN "Exists" ELSE "NotExists"

\* What a check wants to see: the object a Create makes must be absent,
\* every other object looked up (the target of a Drop, the schema of a
\* table) must be present.
Wanted(s) ==
    ObjectState(~(exec.plan.kind.action = "Create"
                    /\ s.system_object = exec.plan.kind.system_object))

CheckExistencePasses ==
    /\ Running /\ step.step = "CheckExistence"
    /\ ObjectState(Exists(step)) = Wanted(step)
    /\ UNCHANGED <<persistent, history>>
    /\ Proceed

\* The check fails in the way IF [NOT] EXISTS allows: the sub-program is a
\* no-op.
CheckExistenceSkips ==
    /\ Running /\ step.step = "CheckExistence"
    /\ ObjectState(Exists(step)) # Wanted(step)
    /\ ObjectState(Exists(step)) = exec.plan.skip_steps_if
    /\ UNCHANGED <<persistent, history>>
    /\ EndSubprogram("Skipped")

CheckExistenceFails ==
    /\ Running /\ step.step = "CheckExistence"
    /\ ObjectState(Exists(step)) # Wanted(step)
    /\ ObjectState(Exists(step)) # exec.plan.skip_steps_if
    /\ Return(exec.outcomes, IF Exists(step) THEN "ObjectAlreadyExists"
                                             ELSE "ObjectDoesNotExist")
    /\ UNCHANGED <<persistent, history>>

CheckDependantsStep ==
    /\ Running /\ step.step = "CheckDependants"
    /\ UNCHANGED <<persistent, history>>
    /\ IF TablesOf(step.object_name[1]) \cap tables = {}
       THEN Proceed
       ELSE Return(exec.outcomes, "HasDependants")

\* The catalog objects that reference the schema, its tables and their
\* columns, are removed.
RemoveDependantsStep ==
    /\ Running /\ step.step = "RemoveDependants"
    /\ tables' = tables \ TablesOf(step.object_name[1])
    /\ columns' = [t \in TableNames |->
                     IF t \in TablesOf(step.object_name[1]) THEN <<>> ELSE columns[t]]
    /\ UNCHANGED <<schemas, folders, files, written, history>>
    /\ Proceed

(***************************************************************************)
(* Storage steps                                                           *)
(***************************************************************************)

CreateFolderStep ==
    /\ Running /\ step.step = "CreateFolder"
    /\ folders' = folders \cup {step.name}
    /\ UNCHANGED <<schemas, tables, columns, files, written, history>>
    /\ Proceed

\* only_if_empty leaves a folder that still holds files where it is; without
\* it the folder goes with all it holds.
RemoveFolderStep ==
    /\ Running /\ step.step = "RemoveFolder"
    /\ LET held == {f \in files : f[1] = step.name}
       IN  IF step.only_if_empty /\ held # {}
           THEN UNCHANGED <<folders, files, written>>
           ELSE /\ folders' = folders \ {step.name}
                /\ files' = files \ held /\ written' = written \ held
    /\ UNCHANGED <<schemas, tables, columns, history>>
    /\ Proceed

\* Nothing says what becomes of a file that is already there, left by an
\* interrupted statement: it is emptied, or it is kept with what it holds.
CreateFileStep ==
    /\ Running /\ step.step = "CreateFile"
    /\ LET file == <<step.folder_name, step.name>>
       IN  /\ files' = files \cup {file}
           /\ \/ written' = written \ {file}
              \/ file \in written /\ UNCHANGED written
    /\ UNCHANGED <<schemas, tables, columns, folders, history>>
    /\ Proceed

RemoveFileStep ==
    /\ Running /\ step.step = "RemoveFile"
    /\ LET file == <<step.folder_name, step.name>>
       IN  files' = files \ {file} /\ written' = written \ {file}
    /\ UNCHANGED <<schemas, tables, columns, folders, history>>
    /\ Proceed

(***************************************************************************)
(* Catalog steps                                                           *)
(***************************************************************************)

TableOf(record) == <<record.schema_name, record.table_name>>

CreateRecordStep ==
    /\ Running /\ step.step = "CreateRecord"
    /\ LET record == step.record
       IN  CASE record.record = "Schema" ->
                    /\ schemas' = schemas \cup {record.schema_name}
                    /\ UNCHANGED <<tables, columns, written>>
             [] record.record = "Table" ->
                    /\ tables' = tables \cup {TableOf(record)}
                    /\ written' = written \cup ({TableOf(record)} \cap files)
                    /\ UNCHANGED <<schemas, columns>>
             [] record.record = "Column" ->
                    /\ columns' = [columns EXCEPT ![TableOf(record)] =
                                     Append(@, [name     |-> record.column_name,
                                                sql_type |-> record.sql_type])]
                    /\ UNCHANGED <<schemas, tables, written>>
    /\ UNCHANGED <<folders, files, history>>
    /\ Proceed

RemoveRecordStep ==
    /\ Running /\ step.step = "RemoveRecord"
    /\ LET record == step.record
       IN  CASE record.record = "Schema" ->
                    /\ schemas' = schemas \ {record.schema_name}
                    /\ UNCHANGED tables
             [] record.record = "Table" ->
                    /\ tables' = tables \ {TableOf(record)}
                    /\ UNCHANGED schemas
    /\ UNCHANGED <<columns, folders, files, written, history>>
    /\ Proceed

RemoveColumnsStep ==
    /\ Running /\ step.step = "RemoveColumns"
    /\ columns' = [columns EXCEPT ![<<step.schema_name, step.table_name>>] = <<>>]
    /\ UNCHANGED <<schemas, tables, folders, files, written, history>>
    /\ Proceed

(***************************************************************************)
(* Failure                                                                 *)
(***************************************************************************)

\* The process stops in the middle of a statement and comes back: the
\* execute() call is gone, the rows and the storage are as the steps taken
\* so far left them, and the client has no answer.
Crash ==
    /\ Running
    /\ crashes < MaxCrashes
    /\ crashes' = crashes + 1
    /\ interrupted' = IF persistent # exec.before THEN exec.change ELSE None
    /\ exec' = None
    /\ last' = None
    /\ UNCHANGED <<persistent, replay>>

-----------------------------------------------------------------------------
\* A new database holds its default schemas and nothing else: a statement
\* on an unqualified table name finds the schema and misses the table.
Init ==
    /\ schemas = DefaultSchemas /\ folders = DefaultSchemas
    /\ tables = {} /\ files = {} /\ written = {}
    /\ columns = [t \in TableNames |-> <<>>]
    /\ exec = None /\ last = None
    /\ crashes = 0 /\ interrupted = None /\ replay = FALSE

Step ==
    \/ CheckExistencePasses \/ CheckExistenceSkips \/ CheckExistenceFails
    \/ CheckDependantsStep \/ RemoveDependantsStep
    \/ CreateFolderStep \/ RemoveFolderStep
    \/ CreateFileStep \/ RemoveFileStep
    \/ CreateRecordStep \/ RemoveRecordStep \/ RemoveColumnsStep

Next ==
    \/ \E change \in SchemaChanges : Execute(change)
    \/ Step
    \/ Crash

\* Safety only: how the executor is scheduled is not among the sources,
\* and nothing is claimed of what it eventually does.
Spec == Init /\ [][Next]_vars

-----------------------------------------------------------------------------
(***************************************************************************)
(* What the order of the planner's steps is there to guarantee             *)
(***************************************************************************)

Outcome == {"Applied", "Skipped"}
Error == {"ObjectAlreadyExists", "ObjectDoesNotExist", "HasDependants"}

TypeOK ==
    /\ schemas \subseteq SchemaNames /\ folders \subseteq SchemaNames
    /\ tables \subseteq TableNames /\ files \subseteq TableNames
    /\ written \subseteq files
    /\ DOMAIN columns = TableNames
    /\ \A t \in TableNames : \A i \in DOMAIN columns[t] :
            DOMAIN columns[t][i] = {"name", "sql_type"}
    /\ Running =>
            /\ exec.change \in SchemaChanges
            /\ exec.sub \in DOMAIN exec.plan.steps
            /\ exec.pc \in DOMAIN exec.plan.steps[exec.sub]
            /\ exec.outcomes \in Seq(Outcome) /\ Len(exec.outcomes) = exec.sub - 1
    /\ last # None =>
            /\ last.change \in SchemaChanges
            /\ last.outcomes \in Seq(Outcome)
            /\ last.error \in Error \cup {None}
    /\ crashes \in 0 .. MaxCrashes
    /\ interrupted \in SchemaChanges \cup {None}
    /\ replay \in BOOLEAN

\* Storage before catalog on create, catalog before storage on drop: at
\* every step of every plan, and after a crash between any two, a schema
\* that has a row has its folder and a table that has a row has its file.
\* The catalog never names an object whose storage is missing.
CatalogBackedByStorage ==
    schemas \subseteq folders /\ tables \subseteq files

\* The catalog is free of dangling rows at every step and after every
\* crash: column rows belong to a table that has a row (DropTables removes
\* the columns first), and a table row belongs to a schema that has a row
\* (DropSchemas deals with the dependants before it removes the schema).
NoDanglingRows ==
    \A t \in TableNames :
        /\ columns[t] # <<>> => t \in tables
        /\ t \in tables => schema(t) \in schemas

\* As long as no statement was ever cut short, storage holds exactly what
\* the catalog names whenever no statement is running: every plan that
\* ends, by success, skip or error, has cleaned up after itself.  This is
\* where only_if_empty = !cascade matters: a cascading drop has to take the
\* files of the tables whose rows RemoveDependants removed.
QuiescentStorageMirrorsCatalog ==
    (crashes = 0 /\ ~Running) => (folders = schemas /\ files = tables)

\* A sub-program that is rejected, skipped under IF [NOT] EXISTS or failed
\* with ObjectAlreadyExists, ObjectDoesNotExist or HasDependants, has
\* changed neither catalog nor storage: every check of a plan comes before
\* its first mutation.
RejectedSubprogramChangesNothing ==
    [][ (/\ Running
         /\ \/ ~Running' /\ last' # None /\ last'.error # None
            \/ Running' /\ exec'.sub > exec.sub /\ Last(exec'.outcomes) = "Skipped"
            \/ ~Running' /\ last' # None /\ last'.error = None
                         /\ Last(last'.outcomes) = "Skipped")
        => persistent' = exec.before ]_vars

\* A table's row disappears only because a statement asked for it: a DROP
\* TABLE that names the table, or a DROP SCHEMA ... CASCADE that names its
\* schema.  A DROP SCHEMA without CASCADE never removes a table.
TablesVanishOnlyOnRequest ==
    [][ \A t \in tables \ tables' :
            /\ Running
            /\ \/ /\ exec.change.change = "DropTables"
                  /\ \E i \in DOMAIN exec.change.full_table_names :
                        exec.change.full_table_names[i] = t
               \/ /\ exec.change.change = "DropSchemas"
                  /\ exec.change.cascade
                  /\ \E i \in DOMAIN exec.change.schema_names :
                        exec.change.schema_names[i] = schema(t) ]_vars

\* What a statement that returned without error has achieved, whatever
\* crashes and statements came before it and whichever of its sub-programs
\* were skipped.
Effect(change, outcomes) ==
    CASE change.change = "CreateSchema" -> change.schema_name \in schemas
      [] change.change = "DropSchemas" ->
            \A i \in DOMAIN change.schema_names :
                /\ change.schema_names[i] \notin schemas
                /\ TablesOf(change.schema_names[i]) \cap tables = {}
      [] change.change = "CreateTable" ->
            /\ change.full_table_name \in tables
            /\ outcomes = <<"Applied">> =>
                    columns[change.full_table_name] = change.column_defs
      [] change.change = "DropTables" ->
            \A i \in DOMAIN change.full_table_names :
                /\ change.full_table_names[i] \notin tables
                /\ columns[change.full_table_names[i]] = <<>>

\* When execute() has returned without error the statement has taken
\* effect: a created table has exactly the declared columns in the declared
\* order, a dropped object has no row left, also when the sub-program was
\* skipped because an earlier, interrupted run had already removed the
\* object's own row.
FinishedChangeTakesEffect ==
    (~Running /\ last # None /\ last.error = None)
        => Effect(last.change, last.outcomes)

\* The planner's programs are described as replayable and idempotent: a
\* CREATE TABLE that a crash left half-done and that is submitted again
\* right after the restart should leave the table with its declared
\* columns, however the second run ends.
ReplayedCreateTableHasItsColumns ==
    (~Running /\ replay /\ last # None /\ last.change.change = "CreateTable")
        => columns[last.change.full_table_name] = last.change.column_defs

\* For drops the catalog rows go before the file, so that a crash between
\* the two leaves the file orphaned, to be collected later, and the
\* programs are described as replayable: a file that an interrupted DROP
\* TABLE left behind is garbage, and a table created under the same name
\* afterwards starts with a file that holds nothing.  CreateTablePlan
\* looks for the table in the catalog and never for its file.
CreatedTableStartsEmpty ==
    [][\A t \in tables' \ tables : t \notin written]_vars

-----------------------------------------------------------------------------
(***************************************************************************)
(* The steps of a plan as an implementation of Catalog                     *)
(***************************************************************************)

\* What a reader of the catalog is shown: a sub-program under way is not
\* visible before its last step is done.
visible == IF Running THEN exec.before ELSE persistent

\* A statement in execution, as far as its sub-programs are done.
progress(e) == [change |-> e.change, next |-> e.sub, outcomes |-> e.outcomes]

served == IF Running THEN progress(exec) ELSE None

Abstract ==
    INSTANCE Catalog
    WITH Sessions <- {"client"},
         schemas <- visible[1], tables <- visible[2], columns <- visible[3],
         request <- [s \in {"client"} |-> served], answer <- last

\* Executing the planner's programs step by step, with the process
\* stopping between any two steps, implements Catalog: for every
\* statement, flag and list of names the steps of a sub-program add up to
\* the creation or the removal of the one object it is about, all of it,
\* exactly when Catalog allows it; a sub-program is skipped or refused
\* exactly when Catalog skips or refuses, with the same error, and then
\* adds up to nothing; and a crash leaves of the object under way nothing
\* but what Catalog lets a crash leave.
ImplementsCatalog == Abstract!Spec

=============================================================================
