\* A window, its DevTools, and a popup and a browser opened from there.
SPECIFICATION FairSpec
CONSTANTS
  win = win  again = again  popup = popup  tools = tools  extra = extra
  Window = {win, popup}
  Popup = {popup}
  Other = {tools, extra}
  First = win
  Alloy = {win}
  OpenerOf <- DevToolsPopup
INVARIANTS
  TypeOK
  QuitOnlyWhenAllClosed
  NothingPostedAfterLoop
  OtherBrowsersAreCounted
  NotificationFindsWindow
  IdleOnlyWhileAlive
PROPERTIES
  ForgetsOnlyClosedWindows
  ClosingTakesWindow
  EndsWhenAllClosed
CHECK_DEADLOCK FALSE
