\* Six checks of three keys, or four calls in two slots to two providers, or two of
\* each, and a restart, within five ticks.
CONSTANTS
    MaxTime = 5
    Key <- MCKey
    max_attempts <- MCMax
    window <- MCWindow
    Capacity = 1
    Provider = {p1, p2}
    Call = {a, b}
    failure_threshold = 2
    cooldown = 2
    tries = 2
    Loads <- MCLoads
SYMMETRY Symmetry
SPECIFICATION Spec
INVARIANTS TypeOK BudgetKept RefusalEarned OpenForCooldown NoFurtherAttempts
CHECK_DEADLOCK FALSE
