CONSTANTS
    SourceLangs = {"asm", "xir"}
    OutputLangs = {"text", "txt"}
    ValidIds = {"x", "y"}
    Lookahead = 1
    DefaultTarget = "x86-64"
    NoNeedle = NoNeedle
    Lower <- MCLower
    Docs <- MCDocs
    Texts <- MCTexts
    Tabbed = {"tab"}
    MaxEvents = 3
    NoDocument = NoDocument
    NoFile = NoFile
    Cut = Cut
    Doc <- MCDoc
    Lines <- MCLines
    Beginnings <- MCBeginnings
    MaxLines = 5

CHECK_DEADLOCK FALSE

SPECIFICATION ToolSpec

INVARIANTS
    ToolTypeOK
    CheckedFixturesAreTheManual
    ListedFixturesExist
    ExtractRepairs
    ExpectationsFollowTheDocument

PROPERTIES
    OtherDocumentsKeepTheirRows
    LaterTextKeepsFixtures
