SPECIFICATION FairSpec
CONSTANTS
  Images <- MCImages
  EmbeddedImage = "embedded"
  ImageSize <- MCImageSize
  FLASH_PAGE_SIZE = 2
  FLASH_SECTOR_SIZE = 4
  FLASH_TOTAL_NUMBER_OF_SECTORS = 2
  UserActions = {"write_embedded_image", "write_image", "erase", "hold", "hw_reset"}
  Faults = {"xmos", "net", "memory", "erase", "write"}
  MaxUser = 2
  MaxFaults = 1
  MaxRestarts = 1
INVARIANT ErasedBeforeWritten
INVARIANT XmosHeldWhileFlashing
PROPERTY ReportedVersionRuns
PROPERTY SuccessMeansDone
PROPERTY FlasherBecomesIdle
PROPERTY XmosRepaired
CHECK_DEADLOCK FALSE
