SPECIFICATION Spec
CONSTANTS
  Device = {"disk", "usb", "fv", "ram"}
  UsbDevice = {"usb"}
  FirmwareVolume = {"fv"}
  Resident = {"fv", "ram"}
  File = {"os", "default"}
  BootOrders <- MCBootOrders
  FileSystems <- MCFileSystems
  LoaderPaths <- MCLoaderPaths
  RamDisk = "ram"
  DefaultFile = "default"
  MainOsPath <- MCMainOs
  SreAppPath <- MCSreApp
  FrontpagePath <- MCFrontpage
  Configs <- MCConfigs
  MaxDispatch = 1
INVARIANT PublishedIsLive
CHECK_DEADLOCK FALSE
