SPECIFICATION Spec
CONSTANTS
    None = None
INVARIANTS
    TypeOK
    PlannerPassesItsUnitTests
    ChecksPrecedeMutations
    OneSubprogramPerTarget
