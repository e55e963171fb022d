----------------------------- MODULE Definition -----------------------------
(***************************************************************************)
(* The names and definitions of entities/definition: how the object name   *)
(* of a parsed statement becomes a SchemaName or a FullTableName, and the  *)
(* ColumnDef and TableDef the catalog describes a table with.              *)
(*                                                                         *)
(* Text is kept as text: an identifier is the string the parser read and   *)
(* the quote it was written in, and lowercasing is a table over the        *)
(* strings in use, so that two names are equal exactly when the code's     *)
(* strings are.  The accessors of FullTableName are in SchemaPlanner.      *)
(***************************************************************************)
EXTENDS SchemaPlanner

CONSTANTS Strings,          \* the texts the model tells apart
          to_lowercase      \* str::to_lowercase over them

ASSUME to_lowercase \in [Strings -> Strings]

Success(value) == [ok |-> TRUE, value |-> value]
Failure(error) == [ok |-> FALSE, error |-> error]

\* sql_ast::Ident: the text, and the quote mark it was written in, if any.
Ident(value, quote_style) == [value |-> value, quote_style |-> quote_style]

\* An identifier as Display writes it: a quoted one keeps its quotes.
ident_to_string(ident) ==
    IF ident.quote_style = None THEN ident.value
    ELSE ident.quote_style \o ident.value \o ident.quote_style

(***************************************************************************)
(* FullTableName                                                           *)
(***************************************************************************)

\* The error carries the object name as it was written.
TableNamingError(object) == [error |-> "TableNamingError", object |-> object]

into(full_table_name) == <<full_table_name[1], full_table_name[2]>>

FullTableName_from(tuple) == <<tuple[1], tuple[2]>>

\* Display: the two parts with a dot between them.
to_string(full_table_name) == full_table_name[1] \o "." \o full_table_name[2]

\* A faulty conversion: the schema part is taken as it was written.
FullTableName_try_from_schema_not_folded(object) ==
    IF Len(object) > 2 THEN Failure(TableNamingError(object))
    ELSE Success(IF Len(object) = 1
                 THEN <<to_lowercase["public"], to_lowercase[Head(object).value]>>
                 ELSE <<Head(object).value, to_lowercase[object[Len(object)].value]>>)

\* A faulty conversion: an unqualified table lands in no schema's namespace
\* but under its own name.
FullTableName_try_from_without_default(object) ==
    IF Len(object) > 2 THEN Failure(TableNamingError(object))
    ELSE Success(<<to_lowercase[Head(object).value],
                   to_lowercase[object[Len(object)].value]>>)

\* One part is a table of public; of two parts the first is the schema.
\* The parts are the identifiers' values: quotes are dropped.
FullTableName_try_from(object) ==
    IF Len(object) > 2 THEN Failure(TableNamingError(object))
    ELSE Success(IF Len(object) = 1
                 THEN <<to_lowercase["public"], to_lowercase[Head(object).value]>>
                 ELSE <<to_lowercase[Head(object).value],
                        to_lowercase[object[Len(object)].value]>>)

(***************************************************************************)
(* SchemaName                                                              *)
(***************************************************************************)

SchemaNamingError(object) == [error |-> "SchemaNamingError", object |-> object]

as_ref(schema_name) == schema_name

\* The name is the identifier as Display writes it, lowercased: a quoted
\* identifier keeps its quotes in the name.
SchemaName_try_from(object) ==
    IF Len(object) # 1 THEN Failure(SchemaNamingError(object))
    ELSE Success(to_lowercase[ident_to_string(object[1])])

\* No folding here: the name is taken as it is given.
SchemaName_from(schema_name) == schema_name

(***************************************************************************)
(* ColumnDef and TableDef                                                  *)
(***************************************************************************)

ColumnDef_new(name, sql_type, ord_num) ==
    [name |-> name, sql_type |-> sql_type, ord_num |-> ord_num]

has_name(column_def, name) == column_def.name = name

TableDef_new(full_table_name, column_defs) ==
    [schema |-> schema(full_table_name), name |-> table(full_table_name),
     columns |-> column_defs]

column_names(table_def) ==
    [i \in DOMAIN table_def.columns |-> table_def.columns[i].name]

\* A faulty lookup: all for any.
has_column_on_every_column(table_def, column_name) ==
    \A i \in DOMAIN table_def.columns : table_def.columns[i].name = column_name

has_column(table_def, column_name) ==
    \E i \in DOMAIN table_def.columns : table_def.columns[i].name = column_name

=============================================================================
