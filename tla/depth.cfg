SPECIFICATION FairSpec
CONSTANTS
    f1 = f1
    f2 = f2
    MaxVersion = 4
    MaxWidth = 2
    Levels = 2
    Fetchers = {f1, f2}
    MaxResets = 2
INVARIANTS TypeOK NoSilentGap FetchComing
PROPERTY FetchEnds
\* The exchange makes finitely many changes and then everything stops.
CHECK_DEADLOCK FALSE
