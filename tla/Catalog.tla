------------------------------ MODULE Catalog ------------------------------
(***************************************************************************)
(* What a client of the database may rely on, whatever the plan of steps   *)
(* behind a statement: the objects a statement names are served one by one *)
(* in the order it names them, and each is created or dropped in one       *)
(* piece, skipped, or refused.  A schema appears only when it was absent,  *)
(* a table only in a schema that is there and with all its columns, a      *)
(* schema with tables goes only under CASCADE and takes its tables along.  *)
(* A refusal ends the statement; what it did for earlier names stays.      *)
(* Statements of several sessions are served side by side: between two     *)
(* names of one statement any other session may have a name served.  When  *)
(* the process stops, the name being served may be left half done, in one  *)
(* of the few ways HalfApplied lists.                                      *)
(***************************************************************************)
EXTENDS Naturals, Sequences

CONSTANTS Sessions,         \* the clients
          SchemaNames,      \* the schema names clients use
          TableNames,       \* the full table names clients use
          DefaultSchemas,   \* the schemas a new database comes with
          SchemaChanges,    \* the statements clients submit
          None

VARIABLES schemas,      \* the schemas there are
          tables,       \* the tables there are
          columns,      \* the columns of each table, in declared order
          request,      \* for each session, its statement and how far it is
                        \* served, or None
          answer        \* the answer to the latest statement, or None

catalog == <<schemas, tables, columns>>
vars == <<catalog, request, answer>>

TablesIn(schema_name) == {t \in tables : t[1] = schema_name}

\* The objects a statement names, in its order.
Targets(change) ==
    CASE change.change = "CreateSchema" -> <<change.schema_name>>
      [] change.change = "DropSchemas" -> change.schema_names
      [] change.change = "CreateTable" -> <<change.full_table_name>>
      [] change.change = "DropTables" -> change.full_table_names

\* What is wrong with serving the target now, if anything.
Obstacle(change, target) ==
    CASE change.change = "CreateSchema" ->
            IF target \in schemas THEN "ObjectAlreadyExists" ELSE None
      [] change.change = "DropSchemas" ->
            IF target \notin schemas THEN "ObjectDoesNotExist"
            ELSE IF ~change.cascade /\ TablesIn(target) # {} THEN "HasDependants"
            ELSE None
      [] change.change = "CreateTable" ->
            IF target[1] \notin schemas THEN "ObjectDoesNotExist"
            ELSE IF target \in tables THEN "ObjectAlreadyExists"
            ELSE None
      [] change.change = "DropTables" ->
            IF target[1] \notin schemas \/ target \notin tables
            THEN "ObjectDoesNotExist" ELSE None

\* The obstacles IF NOT EXISTS and IF EXISTS turn into a no-op.  A table
\* cannot be created in a schema that is missing, whatever the flag.
Forgiven(change, target) ==
    \/ /\ change.change = "CreateSchema" /\ change.if_not_exists
    \/ /\ change.change = "CreateTable" /\ change.if_not_exists
       /\ target[1] \in schemas
    \/ /\ change.change \in {"DropSchemas", "DropTables"} /\ change.if_exists
       /\ Obstacle(change, target) = "ObjectDoesNotExist"

\* The catalog with the target created or dropped.
Applied(change, target) ==
    LET without(ts) == [t \in TableNames |-> IF t \in ts THEN <<>> ELSE columns[t]]
    IN  CASE change.change = "CreateSchema" -> <<schemas \cup {target}, tables, columns>>
          [] change.change = "DropSchemas" ->
                <<schemas \ {target}, tables \ TablesIn(target), without(TablesIn(target))>>
          [] change.change = "CreateTable" ->
                <<schemas, tables \cup {target},
                  [columns EXCEPT ![target] = change.column_defs]>>
          [] change.change = "DropTables" ->
                <<schemas, tables \ {target}, without({target})>>

\* What the catalog may be found as when the process stopped while the
\* target was being created or dropped and nothing was answered: a table
\* with the first few of its columns, a table without its columns, a
\* schema without its tables.  Never a column without its table or a
\* table without its schema.
HalfApplied(change, target) ==
    CASE change.change = "CreateSchema" -> {}
      [] change.change = "DropSchemas" ->
            {<<schemas, Applied(change, target)[2], Applied(change, target)[3]>>}
      [] change.change = "CreateTable" ->
            {<<schemas, tables \cup {target},
               [columns EXCEPT ![target] = SubSeq(change.column_defs, 1, n)]>> :
                    n \in 0 .. Len(change.column_defs)}
      [] change.change = "DropTables" ->
            {<<schemas, tables, Applied(change, target)[3]>>}

Init ==
    /\ schemas = DefaultSchemas
    /\ tables = {}
    /\ columns = [t \in TableNames |-> <<>>]
    /\ request = [s \in Sessions |-> None]
    /\ answer = None

Submit(s, change) ==
    /\ request[s] = None
    /\ request' = [request EXCEPT ![s] = [change |-> change, next |-> 1, outcomes |-> <<>>]]
    /\ UNCHANGED <<catalog, answer>>

\* The name s waits for, if it waits for one.
Target(s) == Targets(request[s].change)[request[s].next]

\* The next name of s is done with, as outcome; after the last name the
\* statement is answered.
Served(s, outcome) ==
    LET outcomes == Append(request[s].outcomes, outcome)
    IN  IF request[s].next < Len(Targets(request[s].change))
        THEN /\ request' = [request EXCEPT ![s].next = @ + 1, ![s].outcomes = outcomes]
             /\ UNCHANGED answer
        ELSE /\ request' = [request EXCEPT ![s] = None]
             /\ answer' = [change |-> request[s].change, outcomes |-> outcomes,
                           error |-> None]

Create_or_Drop(s) ==
    /\ request[s] # None
    /\ Obstacle(request[s].change, Target(s)) = None
    /\ catalog' = Applied(request[s].change, Target(s))
    /\ Served(s, "Applied")

Skip(s) ==
    /\ request[s] # None
    /\ Obstacle(request[s].change, Target(s)) # None
    /\ Forgiven(request[s].change, Target(s))
    /\ UNCHANGED catalog
    /\ Served(s, "Skipped")

Refuse(s) ==
    /\ request[s] # None
    /\ Obstacle(request[s].change, Target(s)) # None
    /\ ~Forgiven(request[s].change, Target(s))
    /\ answer' = [change |-> request[s].change, outcomes |-> request[s].outcomes,
                  error |-> Obstacle(request[s].change, Target(s))]
    /\ request' = [request EXCEPT ![s] = None]
    /\ UNCHANGED catalog

\* The process stops and comes back.  The statements under way are gone
\* and stay without an answer; one of them may have been in the middle of
\* a name.
Crash ==
    /\ \E s \in Sessions : request[s] # None
    /\ request' = [s \in Sessions |-> None]
    /\ answer' = None
    /\ \/ UNCHANGED catalog
       \/ \E s \in Sessions :
            /\ request[s] # None
            /\ Obstacle(request[s].change, Target(s)) = None
            /\ catalog' \in HalfApplied(request[s].change, Target(s))
                                \cup {Applied(request[s].change, Target(s))}

Next ==
    \/ \E s \in Sessions :
            \/ \E change \in SchemaChanges : Submit(s, change)
            \/ Create_or_Drop(s) \/ Skip(s) \/ Refuse(s)
    \/ Crash

Spec == Init /\ [][Next]_vars

=============================================================================
