SPECIFICATION Spec
CONSTANTS
  Image <- MCImage
  BootBlocks = 2
  FlashBlocks = 5
  UploadEnd = 4
  SectorStarts <- MCSectorStarts
  Asked <- MCDownload
  MaxLost = 1
  MaxKills = 0
  Pins = FALSE
  Unplugs = FALSE
  OtherBlocks = {}
PROPERTY SuccessMeansWritten
