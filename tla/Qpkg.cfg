CONSTANTS
    Slots = {1, 2}
    Names = {"a", "b"}
    Dbs = {1, 2}
    Recipes <- MCRecipes
    Histories <- MCHistories
    Chronicle <- MCChronicle
    Plain <- MCPlain
    Simple <- MCSimple
    MaxTime = 2
    MaxCommands = 3
    MaxFaults = 1
    STALE_THRESHOLD = 1
    Sessions = {"index", "build", "two", "versions"}
SPECIFICATION Spec
INVARIANTS
    BuiltIsFaithful
    QuietAnswersAreFresh
    OutdatedIsExact
CHECK_DEADLOCK FALSE
