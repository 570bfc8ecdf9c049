SPECIFICATION Spec
CONSTANTS
  Texts = {"nop"}
  Encoding <- MCEncoding
  References <- MCReferences
  Labels <- MCLabels
  Chunks <- MCChunks
  Fill = 0
  Stored = 85
  Sizes = {3}
  Alignments = {2}
  Origins = {8}
  FileOffsets = {4}
  Ops = {"origin", "isa", "reserve", "pad_to", "align", "here", "freeze", "region.file_align", "output.org", "output.section", "virtual.begin", "virtual.end"}
  LateOps = {}
  MaxFragments = 2
  MaxSections = 3
  MaxIncludes = 2
PROPERTY
  ImplementsEagerOutput
