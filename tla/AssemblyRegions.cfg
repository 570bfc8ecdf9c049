SPECIFICATION AssemblySpec
CONSTANTS
  Texts = {"jmp"}
  Encoding <- MCEncoding
  References <- MCReferences
  Labels <- MCLabels
  Chunks <- MCChunks
  Fill = 0
  Stored = 85
  Sizes = {2}
  Alignments = {4}
  Origins = {100, 200}
  FileOffsets = {40}
  Ops = {"isa", "reserve", "label", "output.org", "output.section", "virtual.begin", "virtual.end"}
  LateOps = {"region.place"}
  MaxFragments = 3
  MaxSections = 3
  MaxIncludes = 1
INVARIANTS
  LabelsMatchLayout
  ReferencesReachTheirLabels
  ChainedRegionsAreDisjoint
