SPECIFICATION FairSpec
CONSTANTS
  Image <- MCImage
  BootBlocks = 2
  FlashBlocks = 5
  UploadEnd = 4
  SectorStarts <- MCSectorStarts
  Asked <- MCUpdate
  MaxLost = 1
  MaxKills = 1
  Pins = TRUE
  Unplugs = TRUE
  OtherBlocks = {1}
INVARIANTS BootKept
PROPERTIES SuccessIfFaultless ToolEnds ResetRunsApp
