CONSTANTS
    Writers     = {w1, w2}
    Missing     = Missing
    Empty       = Empty
    Torn        = Torn
    MaxCrashes  = 1
    None        = None
    DefaultPort = 1
    MaxPort     = 3
    old         = old
    new         = new
    FirstTaken  <- MCTaken
    Contents    <- MCContents
    Bundles     <- MCBundles
    Valid       <- MCValid
    MaxChanges  = 2
SPECIFICATION Spec
INVARIANTS
    TypeOK
    CompleteUnlessOverlap
    SavedIsThere
    ServedLeafIsValid
    LowestFree
    AnnouncedPortIsOurs
PROPERTIES
    InitKeepsConfig
    StartSettles
