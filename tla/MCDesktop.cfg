SPECIFICATION Spec
CONSTANTS
  KBD_BUFFER_SIZE = 3
  CharKeys = {"a"}
  HeldKeys = {"LSHIFT", "RSHIFT"}
  MaxKeys = 5
  MOUSE_QUEUE_SIZE = 3
  ScreenW = 10
  Packets <- MCPackets
  Hosted = {65535}
  MaxPackets = 2
  SECS = 2
  MINS = 2
  TICKS = 8
  wdt_timeout_ticks = 3
  LOGIN_USERNAME_MAX = 2
  LOGIN_PASSWORD_MAX = 3
  Chars = {"p", "q"}
  APP_MAX_RUNNING = 3
  Apps = {"files", "terminal", "browser", "settings"}
  Terminal = "terminal"
  Settings = "settings"
INVARIANTS
  TypeOK
  
  
  WindowsTrue
CHECK_DEADLOCK FALSE
