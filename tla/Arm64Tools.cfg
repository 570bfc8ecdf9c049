CONSTANTS
    WordBits = 6
    ValueBits = 4
    MaxFieldWidth = 4
    MaxArity = 3
    RegBits = 2
    CondBits = 2
    MaxCommands = 4
    None = None
    Encodings <- MCEncodings
    Shapes <- MCShapes
    Commands <- MCCommands
    NoFile = NoFile
    Torn = Torn
    Versions = {1, 2}
    Initial = 1
    InventoryFiles <- MCInventoryFiles
    Main = {"B1", "E1"}
    Extensions = {"E1"}
    MaxEvents = 8
    Rules = {"a", "b", "c"}
    Undefined = {"missing"}
    Roots = {{"a"}, {"a", "b"}}
    NoRule = NoRule
    KINDS <- SelectionKinds
    MnemonicForms <- SelectionForms
    LastValues <- SelectionValues
    MaxForms = 4
    BatchNames = {"B1", "B2", "B3", "B4", "E1", "E5"}
    XmlRows <- BatchRows
    RecordOf <- BatchRecords
    MemoryRecords = {"ldr"}
    ExpectedRows = 3
    MaxRows = 3
    EncodingBits = 4
    Absent = Absent
    Nodes <- TreeNodes
    Root <- MCRoot
    FieldNodes <- MCFieldNodes
    ConditionNodes <- MCConditionNodes
    Expressions <- TreeConditions
    Depth <- TreeDepth
    MaxDepth = 3
    KnownFeatures = {"FEAT_A", "FEAT_B"}
    Enabled = {"FEAT_A"}
    Operations <- TreeOperations
    Groups <- TreeGroups
    MaxNodes = 5

CHECK_DEADLOCK FALSE

SPECIFICATION ToolsSpec

INVARIANTS
    ToolsTypeOK
    EncodingsAreInherited
    ScopeIsClosed
    ClosureIsExact
    CompiledFormsFit
    SelectorsAcceptTheRange
    EncodedWordsTellOperandsApart
    GeneratorsAgree
    FunctionIsTheMnemonic
    BatchesAreComplete
    ChecksCanBeTrusted
    ArtifactsAreWhole
