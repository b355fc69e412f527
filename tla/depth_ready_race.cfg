SPECIFICATION Spec
CONSTANTS
    f1 = f1
    f2 = f2
    MaxVersion = 3
    MaxWidth = 1
    Levels = 2
    Fetchers = {f1}
    MaxResets = 0
INVARIANT MissingUpdateIsKnown
\* The exchange makes finitely many changes and then everything stops.
CHECK_DEADLOCK FALSE
