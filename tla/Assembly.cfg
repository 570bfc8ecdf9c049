SPECIFICATION AssemblySpec
CONSTANTS
  Texts = {"jmp", "mov"}
  Encoding <- MCEncoding
  References <- MCReferences
  Labels <- MCLabels
  Chunks <- MCChunks
  Fill = 0
  Stored = 85
  Sizes = {2}
  Alignments = {4}
  Origins = {100}
  FileOffsets = {6}
  Ops = {"isa", "emit", "reserve", "align", "label", "origin", "store"}
  LateOps = {"emit", "store"}
  MaxFragments = 3
  MaxSections = 1
  MaxIncludes = 1
INVARIANTS
  FixupsMatchInstructions
  LabelsMatchLayout
  ReferencesReachTheirLabels
  FragmentsReachTheFile
PROPERTY
  EveryAssemblyEnds
