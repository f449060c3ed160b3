CONSTANTS
  FileLens <- AllFileLens
  InfoLen = 2
  FHLen = 1
  PixLen = 2
  NumFramesOptions = {2}
  XSizes = {1}
  NumRepsOptions = {0, 1}
  Buffers = TRUE
  BadUnits = {1, 4}
  AllocMayFail = FALSE
  ExtraChannels = {0}
  IoMayFail = FALSE
SPECIFICATION Spec
INVARIANT NoPanic
