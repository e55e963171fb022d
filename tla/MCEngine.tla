------------------------------ MODULE MCEngine ------------------------------
(***************************************************************************)
(* Engine for model checking: the default schema and one more, written in  *)
(* lower case, in upper case and in quotes; one table name, tables of one  *)
(* and two columns; a SELECT of everything, of the second column and of a  *)
(* literal, from the table with and without its schema.                    *)
(***************************************************************************)
EXTENDS Engine, AnalyzerTests

s == Ident("s", None)
S == Ident("S", None)
quoted_s == Ident("s", "\"")
t == Ident("t", None)

\* The names of the statements below, and those of the analyzer's tests.
MCStrings ==
    {"public", "s", "S", "\"s\"", "t", "a", "b", "$1", "$2"}
    \cup {SCHEMA, TABLE, "non_existent_schema", "non_existent_table", "non_existent",
          "only_table_in_the_name", "only_schema_in_the_name", "not_found",
          "col", "col1", "col2", "col_1", "col_2"}
    \cup Range(FOUR_PARTS)

MCParamNumber ==
    [x \in MCStrings |-> CASE x = "$1" -> 1 [] x = "$2" -> 2 [] OTHER -> None]
MCbinary_operation ==
    [Plus |-> "Arithmetic::Add", Gt |-> "Comparison::Gt", And |-> "Logical::And",
     BitwiseOr |-> "Bitwise::Or", StringConcat |-> "StringOp::Concat",
     Like |-> "PatternMatching::Like"]
MCBinaryOperators == DOMAIN MCbinary_operation

\* str::to_lowercase: quotes are characters like any other.
MCto_lowercase == [x \in MCStrings |-> IF x = "S" THEN "s" ELSE x]

MCSchemaNames == {"public", "s", "\"s\""}
MCDefaultSchemas == {"public"}
MCTableNames == {"public", "s"} \X {"t"}

MCLens == {0, 5, 255}

\* Columns as the parser hands them on; r is of a type CREATE TABLE
\* refuses.
a == [name |-> "a", data_type |-> [tag |-> "SmallInt"]]
b == [name |-> "b", data_type |-> [tag |-> "Varchar", len |-> None]]
r == [name |-> "a", data_type |-> [tag |-> "Real"]]

MCSchemaStatements ==
    [statement : {"CreateSchema"}, object_type : {"Schema"},
     names : {<<<<s>>>>, <<<<S>>>>, <<<<quoted_s>>>>, <<<<s, t>>>>},
     if_not_exists : {FALSE}]
    \cup [statement : {"Drop"}, object_type : {"Schema"},
          names : {<<<<s>>>>}, cascade : {TRUE}, if_exists : {FALSE}]
    \cup [statement : {"CreateTable"}, object_type : {"Table"},
          names : {<<<<t>>>>}, columns : {<<a>>, <<a, b>>, <<r>>},
          if_not_exists : {FALSE}]
    \cup [statement : {"CreateTable"}, object_type : {"Table"},
          names : {<<<<S, t>>>>, <<<<s, s, t>>>>}, columns : {<<a>>},
          if_not_exists : {FALSE}]
    \cup [statement : {"Drop"}, object_type : {"Table"},
          names : {<<<<t>>>>}, cascade : {FALSE}, if_exists : {FALSE}]

Select(from, projection) ==
    [statement |-> "Query", from |-> from, projection |-> projection]

MCQueries ==
    { Select(<<t>>, wildcard),
      Select(<<t>>, unnamed(identifier_expr("b"))),
      Select(<<t>>, unnamed(number)),
      Select(<<S, t>>, wildcard),
      Select(<<s, s, t>>, wildcard) }

\* What the statements can ask of the planner.
MCSchemaChanges ==
    {analyze(<<>>, statement).value.change :
        statement \in {x \in MCSchemaStatements : analyze(<<>>, x).ok}}

-----------------------------------------------------------------------------
\* The catalog of a test, with whatever the engine's catalog holds beside
\* it: the names of the tests are not those of the statements above.
beside(database) ==
    [schemas |-> database.schemas \cup snapshot.schemas,
     tables  |-> database.tables \cup snapshot.tables,
     columns |-> database.columns @@ snapshot.columns]

\* What the tests of the analyzer expect of it, it does, and whatever else
\* is in the catalog: for the catalog and the statement of each test,
\* analyze gives the test's result.
AnalyzerPassesItsUnitTests ==
    \A test \in UnitTests :
        analyze(beside(test.database), test.statement) = test.expect

=============================================================================
