SPECIFICATION Spec
CONSTANTS
    kimi = kimi
    custom = custom
    m1 = m1
    m2 = m2
    None = None
    Providers <- MCProviders
    Custom = custom
    Models <- MCModels
    DefaultModel <- MCDefaultModel
    ConnectedAtStart <- MCConnected
    MaxItems = 2
    MaxLines = 4
    Catalog = 4
    MaxSessions = 3
    Heights = {14, 15, 20}
    MaxMounts = 2
    MaxSends = 2
INVARIANTS
    PanelsTypeOK
    ListsInView
    ModelInView
    QuietMemoryAgrees
    OwnOverlay
    PreviewUndone
PROPERTIES
    AnchoredHighlight
    PanelSettles
CHECK_DEADLOCK FALSE
