SPECIFICATION AssemblySpec
CONSTANTS
  Texts = {"jmp"}
  Encoding <- MCEncoding
  References <- MCReferences
  Labels <- MCLabels
  Chunks <- MCChunks
  Fill = 0
  Stored = 85
  Sizes = {1}
  Alignments = {4}
  Origins = {100}
  FileOffsets = {6}
  Ops = {"isa", "emit", "label", "store"}
  LateOps = {"store"}
  MaxFragments = 2
  MaxSections = 1
  MaxIncludes = 1
INVARIANT
  StoresSurvivePatching
