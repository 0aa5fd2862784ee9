SPECIFICATION SceneSpec
CONSTANTS
    setup = setup
    early = early
    late = late
    poison = poison
    alice = alice
    w1 = w1
    w2 = w2
    op = op
    None = None
    Scene = {"recovery"}
    Event = {setup, early}
    Setup = {setup}
    Mappable = {setup, early}
    InContext = {setup, early}
    Account = {alice}
    AccountOf <- MCAccountOf
    Relevant <- MCRelevant
    Actionable <- MCActionable
    Backend = {w1}
    Operator = {op}
    Limit = 1
    Bound <- MCBound
PROPERTIES
    SelectionSkipsSetup
CHECK_DEADLOCK FALSE
