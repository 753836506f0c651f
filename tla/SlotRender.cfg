SPECIFICATION Spec
CONSTANTS
    calendar = calendar
    picture = picture
    Slots <- MCSlots
    Kind <- MCKind
    Feeds <- MCFeeds
    Urls <- MCUrls
    Cap <- MCCap
    Chunks = {1, 2}
    MAX_REDIRECTS = 3
    ScriptCapable <- MCScriptCapable
INVARIANTS TypeOK RequestsInRole FeedsAreIndependent ImageIsWhole
PROPERTY RenderEnds
