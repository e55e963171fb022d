----------------------------- MODULE StaticTree -----------------------------
(***************************************************************************)
(* StaticTreeBuilder of query_analyzer: turns an expression of the parser  *)
(* into a StaticUntypedTree, the tree of the contexts that take literals   *)
(* and parameters only (INSERT ... VALUES).  The builder is recursive and  *)
(* pure.  Literal payloads are left out: a value is its variant.           *)
(***************************************************************************)
EXTENDS Integers

CONSTANTS Idents,           \* the identifiers the model tells apart
          ParamNumber,      \* n for an identifier spelled $n, None for another
          BinaryOperators,  \* sql_ast::BinaryOperator
          binary_operation, \* OperationMapper::binary_operation
          None

ASSUME /\ ParamNumber \in [Idents -> Nat \cup {None}]
       /\ DOMAIN binary_operation = BinaryOperators

Ok(tree) == [ok |-> TRUE, tree |-> tree]
Err(error) == [ok |-> FALSE, error |-> error]

\* The variants of AnalysisError the builder makes.
syntax_error == [error |-> "SyntaxError"]
UndefinedFunction(operation) == [error |-> "UndefinedFunction", operation |-> operation]
column_cant_be_referenced(value) == [error |-> "ColumnCantBeReferenced", column |-> value]
feature_not_supported(feature) == [error |-> "FeatureNotSupported", feature |-> feature]

\* StaticUntypedTree and StaticUntypedItem.
Param(index) == [tree |-> "Item", item |-> "Param", index |-> index]
Const(untyped_value) == [tree |-> "Item", item |-> "Const", value |-> untyped_value]
Operation(left, operation, right) ==
    [tree |-> "Operation", left |-> left, op |-> operation, right |-> right]

\* A faulty parser: $0 taken for a parameter too.
parse_param_index_takes_zero(value) ==
    IF ParamNumber[value] \in Nat THEN ParamNumber[value] - 1 ELSE None

\* $n names the parameter n - 1; $0 and every other spelling name none.
parse_param_index(value) ==
    IF ParamNumber[value] \in Nat \ {0} THEN ParamNumber[value] - 1 ELSE None

\* sql_ast::Value, by variant.
Literals ==
    [Number |-> "Number", SingleQuotedString |-> "String", Boolean |-> "Bool",
     Null |-> "Null"]
Unsupported ==
    [NationalStringLiteral |-> "NationalStringLiteral",
     HexStringLiteral |-> "HexStringLiteral", Interval |-> "TimeInterval"]
Values == DOMAIN Literals \cup DOMAIN Unsupported

value(v) ==
    IF v \in DOMAIN Literals THEN Ok(Const(Literals[v]))
                             ELSE Err(feature_not_supported(Unsupported[v]))

ident(v) ==
    IF parse_param_index(v) # None THEN Ok(Param(parse_param_index(v)))
                                   ELSE Err(column_cant_be_referenced(v))

\* A faulty match: the error of the left operand handed on as it is.
op_result_keeps_left_error(operation, left_item, right_item) ==
    CASE left_item.ok /\ right_item.ok ->
            Ok(Operation(left_item.tree, operation, right_item.tree))
      [] ~left_item.ok -> left_item
      [] OTHER -> Err(UndefinedFunction(operation))

\* A faulty match: the right operand's result is not looked at.
op_result_ignores_right(operation, left_item, right_item) ==
    IF left_item.ok
    THEN Ok(Operation(left_item.tree, operation,
                      IF right_item.ok THEN right_item.tree ELSE Const("Null")))
    ELSE Err(UndefinedFunction(operation))

\* The match of op() on the results of its two operands.
op_result(operation, left_item, right_item) ==
    IF left_item.ok /\ right_item.ok
    THEN Ok(Operation(left_item.tree, operation, right_item.tree))
    ELSE Err(UndefinedFunction(operation))

RECURSIVE inner_build(_)

\* Both operands are built, whatever the first one gives.
op(operator, left, right) ==
    op_result(binary_operation[operator], inner_build(left), inner_build(right))

\* Every expression that is no value, identifier or binary operation is a
\* syntax error.
inner_build(root_expr) ==
    CASE root_expr.expr = "Value" -> value(root_expr.value)
      [] root_expr.expr = "Identifier" -> ident(root_expr.value)
      [] root_expr.expr = "BinaryOp" -> op(root_expr.op, root_expr.left, root_expr.right)
      [] OTHER -> Err(syntax_error)

build_from(root_expr) == inner_build(root_expr)

=============================================================================
