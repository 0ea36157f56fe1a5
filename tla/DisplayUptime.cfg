\* A firmware that has run for more than half the clock, with no error at all.
SPECIFICATION DisplaySpec
CONSTANTS
  MsMod = 24
  ActivityHold = 3
  FaultOverlay = 8
  RenderInterval = 2
  BootDuration = 3
  Profiles = {"kUsbBridge", "kListenOnly", "kControlledTest"}
  PublishInterval = 1
  ReceiveTimeout = 1
  TaskGap = 1
  BeginTime = 1
  MaxEvents = 0
  MaxUptime = 23
INVARIANTS OverlayTemporary
CHECK_DEADLOCK FALSE
