\* Two intents, two dates, every save and every query may fail.
CONSTANTS
    Root = Root
    Paths = {Root, Sub}
    Rests = {3}
    RestMin = 1
    RestMax = 2
    MaxIntents = 2
    MaxFailures = 2
    MaxDay = 2
    None = None
SPECIFICATION FairSpec
CHECK_DEADLOCK FALSE
INVARIANTS
    ShownAnswersQuery
    LoadingEnds
    SettledAgrees
    PreferencesKept
    HeaderKeepsUp
PROPERTY PreferencesBegin
