SPECIFICATION Spec
CONSTANTS
    NoFile = NoFile
    Files <- SomeFiles
    CliLevels = {"info"}
    Servers = {1, 2}
    Cap = 2
    Rows = {0, 1, 2}
    Page = 2
    MaxEvents = 4
INVARIANTS TypeOK ViewInRange FeedKeepsNewest
CHECK_DEADLOCK FALSE
