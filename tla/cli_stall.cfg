CONSTANTS
  FileLens <- AllFileLens
  InfoLen = 2
  FHLen = 1
  PixLen = 2
  NumFramesOptions = {2}
  XSizes = {1}
  NumRepsOptions = {1}
  Buffers = FALSE
  BadUnits = {99}
  AllocMayFail = FALSE
  ExtraChannels = {0}
  IoMayFail = FALSE
SPECIFICATION Spec
PROPERTY Termination
