SPECIFICATION Spec
CONSTANTS
  Texts = {"nop"}
  Encoding <- MCEncoding
  References <- MCReferences
  Labels <- MCLabels
  Chunks <- MCChunks
  Fill = 0
  Stored = 85
  Sizes = {3}
  Alignments = {2}
  Origins = {8}
  FileOffsets = {4}
  Ops = {"isa", "align", "label", "include", "region.place", "output.section", "virtual.begin", "virtual.end", "break"}
  LateOps = {}
  MaxFragments = 2
  MaxSections = 3
  MaxIncludes = 2
PROPERTY
  ImplementsEagerOutput
