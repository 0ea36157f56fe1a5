\* Steps of a quarter of a second, from power-up: three packets, errors or other
\* events, at any time, in each profile.
SPECIFICATION DisplaySpec
CONSTANTS
  MsMod = 64
  ActivityHold = 3
  FaultOverlay = 8
  RenderInterval = 2
  BootDuration = 3
  Profiles = {"kUsbBridge", "kListenOnly", "kControlledTest"}
  PublishInterval = 1
  ReceiveTimeout = 1
  TaskGap = 1
  BeginTime = 1
  MaxEvents = 3
  MaxUptime = 20
INVARIANTS ActivityShown FaultShown ScreenSettles OverlayTemporary
CHECK_DEADLOCK FALSE
