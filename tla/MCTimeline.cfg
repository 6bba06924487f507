SPECIFICATION Spec
CONSTANTS
    mine = mine  loaded = loaded  created = created
    EmptyName = EmptyName
    Positions <- MCPositions
    FirstPosition = 2
    UserNames <- MCUserNames
    NotableEvents <- MCNotableEvents
    UserDeletes = TRUE
    MaxPositions = 4
INVARIANTS TypeOK SortedTimeline NoGhostNetnode RowsAreEntries EventsListedOnce
