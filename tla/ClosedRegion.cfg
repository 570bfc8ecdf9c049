SPECIFICATION Spec
CONSTANTS
  Texts = {"nop"}
  Encoding <- MCEncoding
  References <- MCReferences
  Labels <- MCLabels
  Chunks <- MCChunks
  Fill = 0
  Stored = 85
  Sizes = {2}
  Alignments = {4}
  Origins = {8}
  FileOffsets = {4}
  Ops = {"emit", "region.begin", "region.file_align", "include"}
  LateOps = {}
  MaxFragments = 3
  MaxSections = 2
  MaxIncludes = 2
PROPERTY
  ClosedRegionStaysClosed
