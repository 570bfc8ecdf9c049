SPECIFICATION Spec
CONSTANTS
  Texts = {"nop"}
  Encoding <- MCEncoding
  References <- MCReferences
  Labels <- MCLabels
  Chunks <- MCChunks
  Fill = 0
  Stored = 85
  Sizes = {2}
  Alignments = {4}
  Origins = {8}
  FileOffsets = {4}
  Ops = {"isa", "emit", "align", "here"}
  LateOps = {}
  MaxFragments = 3
  MaxSections = 1
  MaxIncludes = 1
INVARIANT
  ConditionsSeeTheCurrentAddress
