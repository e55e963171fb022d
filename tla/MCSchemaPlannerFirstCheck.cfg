SPECIFICATION Spec
CONSTANTS
    None = None
INVARIANTS
    FirstCheckIsOfTarget
