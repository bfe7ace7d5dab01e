SPECIFICATION Spec
CONSTANTS
    Width <- MCWidth
    Bytes <- MCBytes
    MaxBytes = 9
    MaxRing = 2
    Registry <- MCRegistry
    MinColumns = 7
    CwdLength = 10
    HelpLines = 20
    Typed <- MCTyped
    Pastes <- MCPastes
    Terms <- MCTerms
    Prompt <- MCPrompt
    Chunk <- MCChunk
    Answer <- MCAnswer
    PointerRows = {2, 11}
    PointerColumns = {3, 5}
    Heights = {14, 15, 18}
    Widths = {8, 10}
    Transcripts <- MCTranscripts
    Budgets <- MCBudgets
INVARIANTS
    CaretInView
    ScreenFits
    HighlightIsCopied
    ArmedOverShown
PROPERTIES
    ReaderHolds
CHECK_DEADLOCK FALSE
