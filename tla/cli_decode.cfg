CONSTANTS
  FileLens <- BigFileLens
  InfoLen = 2
  FHLen = 1
  PixLen = 2
  NumFramesOptions = {1, 3}
  XSizes = {0, 1, 3}
  NumRepsOptions = {2}
  Buffers = TRUE
  BadUnits = {1, 4, 6, 99}
  AllocMayFail = TRUE
  ExtraChannels = {0, 1}
  IoMayFail = TRUE
SPECIFICATION Spec
INVARIANT TypeOK PlanesFromInterleavedExact
PROPERTY ImplementsCliSpec
