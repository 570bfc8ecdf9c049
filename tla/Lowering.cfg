SPECIFICATION Spec
CONSTANTS
  Texts <- MCTexts
  Encoding <- MCEncoding
  References <- MCReferences
  Labels <- MCLabels
  Chunks <- MCChunks
  Fill = 0
  Stored = 85
  Sizes = {2}
  Alignments = {4}
  Origins = {8}
  FileOffsets = {4}
  Ops = {"emit", "isa", "reserve", "pad", "pad_to", "align", "label", "store", "freeze", "load", "region.begin", "region.file_align", "virtual.begin", "virtual.end"}
  LateOps = {}
  MaxFragments = 3
  MaxSections = 2
  MaxIncludes = 2
INVARIANTS
  TypeOK
  MemoIsFullWalk
  CursorIsLaidOut
  SavedCursorsAreCurrent
PROPERTIES
  FinalSizesNeverChange
  ClosedRegionStaysClosed
