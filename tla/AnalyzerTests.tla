--------------------------- MODULE AnalyzerTests ---------------------------
(***************************************************************************)
(* The unit tests of the analyzer (query_analyzer/src/tests): for each     *)
(* test the catalog it sets up, the statement it analyses and the result   *)
(* it expects.  The analysis of Analyzer is held against them.  Payloads   *)
(* of literals are left out, as in StaticTree: 1 is a Number.              *)
(***************************************************************************)
EXTENDS Analyzer, TLC

SCHEMA == "schema_name"
TABLE == "table_name"

Test(database, statement, expect) ==
    [database |-> database, statement |-> statement, expect |-> expect]

\* InMemoryDatabase::new(), and what create_schema and create_table make
\* of it.
new == [schemas |-> {"public"}, tables |-> {}, columns |-> <<>>]

with_schema(database, schema_name) ==
    [database EXCEPT !.schemas = @ \cup {schema_name}]

with_table(database, schema_name, table_name, column_defs) ==
    [database EXCEPT !.tables = @ \cup {<<schema_name, table_name>>},
                     !.columns = (<<schema_name, table_name>> :> column_defs) @@ @]

col(name, sql_type) == [name |-> name, sql_type |-> sql_type]

\* The catalog most tests start from: SCHEMA with TABLE of these columns.
table_of_columns(column_defs) ==
    with_table(with_schema(new, SCHEMA), SCHEMA, TABLE, column_defs)

\* The statements as the helpers of the tests build them.
object(parts) == [i \in DOMAIN parts |-> Ident(parts[i], None)]

select_of(parts, items) ==
    [statement |-> "Query", from |-> object(parts), projection |-> items]
wildcard == <<[item |-> "Wildcard"]>>
unnamed(expr) == <<[item |-> "UnnamedExpr", expr |-> expr]>>

insert_of(parts, rows, listed) ==
    [statement |-> "Insert", table_name |-> object(parts),
     columns |-> listed, source |-> rows]

update_of(parts, assignments) ==
    [statement |-> "Update", table_name |-> object(parts),
     assignments |-> assignments]

identifier_expr(name) == [expr |-> "Identifier", value |-> name]
number == [expr |-> "Value", value |-> "Number"]
string == [expr |-> "Value", value |-> "SingleQuotedString"]
boolean == [expr |-> "Value", value |-> "Boolean"]
null == [expr |-> "Value", value |-> "Null"]
binary(left, operator, right) ==
    [expr |-> "BinaryOp", left |-> left, op |-> operator, right |-> right]

FOUR_PARTS == <<"first_part", "second_part", "third_part", "fourth_part">>

read(items) == Success(Read(SelectQuery(<<SCHEMA, TABLE>>, items)))
inserted(rows) == Success(Write(Insert(InsertQuery(<<SCHEMA, TABLE>>, rows))))

-----------------------------------------------------------------------------
(***************************************************************************)
(* selects/general_cases.rs                                                *)
(***************************************************************************)

select_schema_does_not_exist ==
    Test(new, select_of(<<"non_existent_schema", TABLE>>, wildcard),
         Failure(schema_does_not_exist("non_existent_schema")))

select_table_does_not_exist ==
    Test(with_schema(new, SCHEMA), select_of(<<SCHEMA, "non_existent_table">>, wildcard),
         Failure(table_does_not_exist(<<SCHEMA, "non_existent_table">>)))

select_table_with_unqualified_name ==
    Test(new, select_of(<<"only_table_in_the_name">>, wildcard),
         Failure(table_does_not_exist(<<"public", "only_table_in_the_name">>)))

select_table_with_unsupported_name ==
    Test(new, select_of(FOUR_PARTS, wildcard),
         Failure(TableNamingError(object(FOUR_PARTS))))

(***************************************************************************)
(* selects/expressions.rs                                                  *)
(***************************************************************************)

col1 == table_of_columns(<<col("col1", Types!integer)>>)

select_all_columns_from_table ==
    Test(col1, select_of(<<SCHEMA, TABLE>>, wildcard),
         read(<<Column("col1", 0, Types!integer)>>))

select_specified_column_from_table ==
    Test(col1, select_of(<<SCHEMA, TABLE>>, unnamed(identifier_expr("col1"))),
         read(<<Column("col1", 0, Types!integer)>>))

select_column_that_is_not_in_table ==
    Test(col1, select_of(<<SCHEMA, TABLE>>, unnamed(identifier_expr("col2"))),
         Failure(column_not_found("col2")))

select_from_table_with_constant ==
    Test(col1, select_of(<<SCHEMA, TABLE>>, unnamed(number)),
         read(<<Static!Const("Number")>>))

select_parameters_from_a_table ==
    Test(col1, select_of(<<SCHEMA, TABLE>>, unnamed(identifier_expr("$1"))),
         read(<<Static!Param(0)>>))

select_arithmetic ==
    Test(table_of_columns(<<col("col", Types!small_int)>>),
         select_of(<<SCHEMA, TABLE>>, unnamed(binary(string, "Plus", number))),
         read(<<Static!Operation(Static!Const("String"), "Arithmetic::Add",
                                 Static!Const("Number"))>>))

select_comparison ==
    Test(table_of_columns(<<col("col", Types!bool)>>),
         select_of(<<SCHEMA, TABLE>>, unnamed(binary(string, "Gt", number))),
         read(<<Static!Operation(Static!Const("String"), "Comparison::Gt",
                                 Static!Const("Number"))>>))

\* mod multiple_values: one operator of each kind over two literals.
select_value_as_expression_with_operation(left, operator, right, sql_type, expect) ==
    Test(table_of_columns(<<col("col", sql_type)>>),
         select_of(<<SCHEMA, TABLE>>, unnamed(binary(left, operator, right))),
         read(<<Static!Operation(Static!Const(Static!Literals[left.value]), expect,
                                 Static!Const(Static!Literals[right.value]))>>))

select_string_operation ==
    select_value_as_expression_with_operation(
        string, "StringConcat", string, Types!var_char(255), "StringOp::Concat")
select_logical ==
    select_value_as_expression_with_operation(boolean, "And", boolean, Types!bool, "Logical::And")
select_bitwise ==
    select_value_as_expression_with_operation(number, "BitwiseOr", number, Types!small_int, "Bitwise::Or")
select_pattern_matching ==
    select_value_as_expression_with_operation(
        string, "Like", string, Types!bool, "PatternMatching::Like")

(***************************************************************************)
(* insertions/general_cases.rs                                             *)
(***************************************************************************)

col_small_int == table_of_columns(<<col("col", Types!small_int)>>)

insert_schema_does_not_exist ==
    Test(new, insert_of(<<SCHEMA, TABLE>>, <<>>, <<>>),
         Failure(schema_does_not_exist(SCHEMA)))

insert_table_does_not_exist ==
    Test(with_schema(new, SCHEMA), insert_of(<<SCHEMA, TABLE>>, <<>>, <<>>),
         Failure(table_does_not_exist(<<SCHEMA, TABLE>>)))

insert_table_with_unqualified_name ==
    Test(new, insert_of(<<"only_table_in_the_name">>, <<>>, <<>>),
         Failure(table_does_not_exist(<<"public", "only_table_in_the_name">>)))

insert_table_with_unsupported_name ==
    Test(new, insert_of(FOUR_PARTS, <<>>, <<>>),
         Failure(TableNamingError(object(FOUR_PARTS))))

insert_with_column_names ==
    Test(col_small_int, insert_of(<<SCHEMA, TABLE>>, <<<<number>>>>, <<"col">>),
         inserted(<<<<Static!Const("Number")>>>>))

insert_column_not_found ==
    Test(col_small_int, insert_of(<<SCHEMA, TABLE>>, <<<<number>>>>, <<"not_found">>),
         Failure(column_not_found("not_found")))

(***************************************************************************)
(* insertions/expressions.rs                                               *)
(***************************************************************************)

two_small_ints == table_of_columns(<<col("col_1", Types!small_int), col("col_2", Types!small_int)>>)

insert_number ==
    Test(col_small_int, insert_of(<<SCHEMA, TABLE>>, <<<<number>>>>, <<>>),
         inserted(<<<<Static!Const("Number")>>>>))

insert_value(sql_type, literal, expect) ==
    Test(table_of_columns(<<col("col", sql_type)>>),
         insert_of(<<SCHEMA, TABLE>>, <<<<literal>>>>, <<>>), expect)

insert_string == insert_value(Types!char(5), string, inserted(<<<<Static!Const("String")>>>>))
insert_boolean == insert_value(Types!bool, boolean, inserted(<<<<Static!Const("Bool")>>>>))
insert_null == insert_value(Types!bool, null, inserted(<<<<Static!Const("Null")>>>>))

insert_identifier ==
    Test(col_small_int,
         insert_of(<<SCHEMA, TABLE>>, <<<<identifier_expr("col")>>>>, <<>>),
         Failure(Static!column_cant_be_referenced("col")))

insert_into_table_with_parameters ==
    Test(two_small_ints,
         insert_of(<<SCHEMA, TABLE>>,
                   <<<<identifier_expr("$1"), identifier_expr("$2")>>>>, <<>>),
         inserted(<<<<Static!Param(0), Static!Param(1)>>>>))

insert_into_table_with_parameters_and_values ==
    Test(two_small_ints,
         insert_of(<<SCHEMA, TABLE>>, <<<<identifier_expr("$1"), number>>>>, <<>>),
         inserted(<<<<Static!Param(0), Static!Const("Number")>>>>))

insert_arithmetic ==
    Test(col_small_int,
         insert_of(<<SCHEMA, TABLE>>, <<<<binary(number, "Plus", number)>>>>, <<>>),
         inserted(<<<<Static!Operation(Static!Const("Number"), "Arithmetic::Add",
                                       Static!Const("Number"))>>>>))

insert_national_strings ==
    Test(col_small_int,
         insert_of(<<SCHEMA, TABLE>>,
                   <<<<[expr |-> "Value", value |-> "NationalStringLiteral"]>>>>, <<>>),
         Failure(Static!feature_not_supported("NationalStringLiteral")))

insert_hex_strings ==
    insert_value(Types!small_int, [expr |-> "Value", value |-> "HexStringLiteral"],
                 Failure(Static!feature_not_supported("HexStringLiteral")))
insert_time_intervals ==
    insert_value(Types!small_int, [expr |-> "Value", value |-> "Interval"],
                 Failure(Static!feature_not_supported("TimeInterval")))

\* mod multiple_values: one operator of each kind over two literals.
insert_value_as_expression_with_operation(left, operator, right, sql_type, expect) ==
    insert_value(sql_type, binary(left, operator, right),
                 inserted(<<<<Static!Operation(Static!Const(Static!Literals[left.value]),
                                               expect,
                                               Static!Const(Static!Literals[right.value]))>>>>))

insert_string_operation ==
    insert_value_as_expression_with_operation(
        string, "StringConcat", string, Types!var_char(255), "StringOp::Concat")
insert_comparison ==
    insert_value_as_expression_with_operation(number, "Gt", number, Types!bool, "Comparison::Gt")
insert_logical ==
    insert_value_as_expression_with_operation(boolean, "And", boolean, Types!bool, "Logical::And")
insert_bitwise ==
    insert_value_as_expression_with_operation(number, "BitwiseOr", number, Types!small_int, "Bitwise::Or")
insert_pattern_matching ==
    insert_value_as_expression_with_operation(
        string, "Like", string, Types!bool, "PatternMatching::Like")

(***************************************************************************)
(* updates/general_cases.rs                                                *)
(***************************************************************************)

update_schema_does_not_exist ==
    Test(new, update_of(<<"non_existent_schema", "non_existent_table">>, <<>>),
         Failure(schema_does_not_exist("non_existent_schema")))

update_table_does_not_exist ==
    Test(with_schema(new, SCHEMA), update_of(<<SCHEMA, "non_existent">>, <<>>),
         Failure(table_does_not_exist(<<SCHEMA, "non_existent">>)))

update_table_with_unqualified_name ==
    Test(new, update_of(<<"only_schema_in_the_name">>, <<>>),
         Failure(table_does_not_exist(<<"public", "only_schema_in_the_name">>)))

update_table_with_unsupported_name ==
    Test(new, update_of(FOUR_PARTS, <<>>),
         Failure(TableNamingError(object(FOUR_PARTS))))

UnitTests ==
    { select_schema_does_not_exist, select_table_does_not_exist,
      select_table_with_unqualified_name, select_table_with_unsupported_name,
      select_all_columns_from_table, select_specified_column_from_table,
      select_column_that_is_not_in_table, select_from_table_with_constant,
      select_parameters_from_a_table, select_arithmetic, select_comparison,
      select_string_operation, select_logical, select_bitwise,
      select_pattern_matching,
      insert_schema_does_not_exist, insert_table_does_not_exist,
      insert_table_with_unqualified_name, insert_table_with_unsupported_name,
      insert_with_column_names, insert_column_not_found,
      insert_number, insert_identifier, insert_into_table_with_parameters,
      insert_into_table_with_parameters_and_values, insert_arithmetic,
      insert_national_strings, insert_string, insert_boolean, insert_null,
      insert_hex_strings, insert_time_intervals, insert_string_operation,
      insert_comparison, insert_logical, insert_bitwise, insert_pattern_matching,
      update_schema_does_not_exist, update_table_does_not_exist,
      update_table_with_unqualified_name, update_table_with_unsupported_name }

=============================================================================
