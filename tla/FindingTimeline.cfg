SPECIFICATION Spec
CONSTANTS
    mine = mine  loaded = loaded  created = created
    EmptyName = EmptyName
    Positions <- MCPositions
    FirstPosition = 2
    UserNames <- MCUserNames
    NotableEvents <- MCNotableEvents
    UserDeletes = FALSE
    MaxPositions = 3
INVARIANT NotableEventsListed
