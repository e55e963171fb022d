SPECIFICATION Spec
CONSTANTS
    None = None
    Idents <- MCIdents
    ParamNumber <- MCParamNumber
    BinaryOperators <- MCBinaryOperators
    binary_operation <- MCbinary_operation
CHECK_DEADLOCK FALSE
INVARIANTS
    TypeOK
    BuildsExactlyTheStaticExpressions
    FailureNamesOutermostOperator
