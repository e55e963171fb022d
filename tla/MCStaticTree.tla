---------------------------- MODULE MCStaticTree ----------------------------
(***************************************************************************)
(* StaticTree for model checking: every expression of at most MaxDepth     *)
(* nested binary operations over the seven kinds of value, the identifiers *)
(* $0, $1 and col, and an expression of another kind is handed to the      *)
(* builder, which returns once.                                            *)
(***************************************************************************)
EXTENDS StaticTree, FiniteSets

MCIdents == {"$0", "$1", "col"}
MCParamNumber == [i \in MCIdents |-> CASE i = "$0" -> 0 [] i = "$1" -> 1 [] OTHER -> None]
MCBinaryOperators == {"Plus", "Gt"}
MCbinary_operation == [Plus |-> "Arithmetic::Add", Gt |-> "Comparison::Gt"]

MaxDepth == 2

Leaves ==
    [expr : {"Value"}, value : Values] \cup [expr : {"Identifier"}, value : Idents]
        \cup [expr : {"Nested"}]

RECURSIVE Exprs(_)
\* The expressions with at most depth binary operations above a leaf.
Exprs(depth) ==
    IF depth = 0 THEN Leaves
    ELSE Leaves \cup [expr : {"BinaryOp"}, left : Exprs(depth - 1),
                      op : BinaryOperators, right : Exprs(depth - 1)]

VARIABLES root_expr,    \* the expression the analyzer hands to the builder
          result        \* what build_from returned, None before it has

vars == <<root_expr, result>>

Init ==
    /\ root_expr \in Exprs(MaxDepth)
    /\ result = None

Build ==
    /\ result = None
    /\ result' = build_from(root_expr)
    /\ UNCHANGED root_expr

Next == Build

Spec == Init /\ [][Next]_vars

-----------------------------------------------------------------------------
RECURSIVE SubExprs(_)
\* An expression and all the expressions below it.
SubExprs(e) ==
    IF e.expr = "BinaryOp" THEN {e} \cup SubExprs(e.left) \cup SubExprs(e.right)
                           ELSE {e}

RECURSIVE IsStaticTree(_)
\* A StaticUntypedTree: constants and parameters under operations.
IsStaticTree(tree) ==
    \/ tree \in [tree : {"Item"}, item : {"Param"}, index : Nat]
    \/ tree \in [tree : {"Item"}, item : {"Const"}, value : {"Number", "String", "Bool", "Null"}]
    \/ /\ DOMAIN tree = {"tree", "left", "op", "right"}
       /\ tree.tree = "Operation"
       /\ tree.op \in {binary_operation[o] : o \in BinaryOperators}
       /\ IsStaticTree(tree.left) /\ IsStaticTree(tree.right)

TypeOK ==
    /\ root_expr \in Exprs(MaxDepth)
    /\ \/ result = None
       \/ result.ok /\ IsStaticTree(result.tree)
       \/ ~result.ok /\ result.error.error \in
            {"SyntaxError", "UndefinedFunction", "ColumnCantBeReferenced", "FeatureNotSupported"}

\* What a literal-only context admits at a leaf: a supported literal or a
\* parameter.
StaticLeaf(e) ==
    \/ e.expr = "Value" /\ e.value \in DOMAIN Literals
    \/ e.expr = "Identifier" /\ parse_param_index(e.value) # None

\* build_from succeeds exactly when every leaf of the expression, however
\* deep and on whichever side of an operator, is a supported literal or a
\* parameter: no column reference, unsupported literal or foreign
\* expression gets into a static tree through a nested operand.
BuildsExactlyTheStaticExpressions ==
    result # None =>
        (result.ok <=> \A e \in SubExprs(root_expr) : e.expr = "BinaryOp" \/ StaticLeaf(e))

\* A failure below a binary operator is reported as UndefinedFunction of
\* the outermost operator, whichever operand failed, at whatever depth and
\* for whatever reason; only an expression that is itself a leaf reports
\* its own error.
FailureNamesOutermostOperator ==
    (result # None /\ ~result.ok /\ root_expr.expr = "BinaryOp")
        => result.error = UndefinedFunction(binary_operation[root_expr.op])

=============================================================================
