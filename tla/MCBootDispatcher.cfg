SPECIFICATION DispatcherSpec
CONSTANTS
  Device = {"disk", "usb", "fv", "ram"}
  UsbDevice = {"usb"}
  FirmwareVolume = {"fv"}
  Resident = {"fv", "ram"}
  File = {"os", "default"}
  BootOrders <- MCBootOrders
  FileSystems <- MCFileSystems
  LoaderPaths <- MCLoaderPaths
  RamDisk = "ram"
  DefaultFile = "default"
  MainOsPath <- MCMainOs
  SreAppPath <- MCSreApp
  FrontpagePath <- MCFrontpage
  Configs <- MCConfigs
  MaxDispatch = 1
  SimpleConfigs <- MCSimpleConfigs
  MaxHandles = 3
INVARIANTS
  LockedWhenRunning
  WatchdogGuardsImages
  ReadyToBootFirst
  TeardownKeepsLive
  UsbSkipped
  FallbackHonoursPolicy
  GivesUpOnlyAfterTrying
  FailureAfterAllDevices
  DriversGetConnected
PROPERTIES
  BootEnds
  BootMovesOn
CHECK_DEADLOCK FALSE
