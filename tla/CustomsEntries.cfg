CONSTANTS
    Entries = {e1, e2}
    Parts = {c1}
    Contents = {v1, v2}
    Requests = {r1, r2}
    MaxStarted = 6
SPECIFICATION Spec
SYMMETRY Symmetry
INVARIANTS TypeOK NoStageSkipped HistoryTells
PROPERTIES FrozenOnceValidated FinishedIsFinal
CHECK_DEADLOCK FALSE
