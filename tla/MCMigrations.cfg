\* Two runners, two deaths: a no-transaction migration is lost by both.
SPECIFICATION FairSpec
CONSTANTS
    Runner = {r1, r2}
    App = {a1}
    Release = {"first", "second", "third", "edited", "gap"}
    Files <- MCFiles
    Text = {"one", "two", "three", "edited"}
    MaxVersion = 3
    None = None
    MaxCrashes = 2
INVARIANTS
    TypeOK
    AppliedOnceInOrder
    RecordedHasRun
    AppCovered
PROPERTIES
    HistoryOnlyGrows
    Finishes
