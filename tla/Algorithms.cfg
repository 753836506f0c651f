\* A call answers and is over.
SPECIFICATION Spec
CONSTANTS
    Screens <- MCScreens
    ZIndexes = {0, 1}
    Pictures <- MCPictures
    Fetches <- MCFetches
    Feeds <- MCFeeds
    Listings <- MCListings
    Nil = Nil
INVARIANTS LayoutTiles SlotsShownWhole PackedShowsNearest WindowIsRight OutputIsRight AgendaIsDue
CHECK_DEADLOCK FALSE
