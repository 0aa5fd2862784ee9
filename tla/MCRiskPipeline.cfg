SPECIFICATION SceneSpec
CONSTANTS
    setup = setup
    early = early
    late = late
    poison = poison
    alice = alice
    w1 = w1
    w2 = w2
    op = op
    None = None
    Scene = {"race", "recovery"}
    Event = {setup, early, late, poison}
    Setup = {setup}
    Mappable = {setup, early, late}
    InContext = {setup, early, late}
    Account = {alice}
    AccountOf <- MCAccountOf
    Relevant <- MCRelevant
    Actionable <- MCActionable
    Backend = {w1, w2}
    Operator = {op}
    Limit = 3
    Bound <- MCBound
INVARIANTS
    TypeOK
    LineageIsWhole
    OneOpenCase
    ScoredOnWhatWasKnown
PROPERTIES
    LineageIsFinal
    EventsAreAnswered
CHECK_DEADLOCK FALSE
