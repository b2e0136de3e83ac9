SPECIFICATION FairSpec
CONSTANTS
    Views <- AllViews
    Roles = {"admin"}
    Row <- ThreeRows
    PageSize = 2
    Found <- FirstAndLast
    MaxEdits = 2
    MaxElsewhere = 1
INVARIANTS TypeOK UrlShowsFilters
PROPERTIES FilterShowsFirstPage  TableSettles
CHECK_DEADLOCK FALSE
