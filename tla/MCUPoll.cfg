CONSTANTS
    Channel = {3, 4, 5}
    Event = {read, write}
SPECIFICATION Spec
SYMMETRY EventSymmetry
CONSTRAINT FewIdled
INVARIANTS IndexesAgree WantedIsWatched
PROPERTY ImplementsPoller
CHECK_DEADLOCK FALSE
