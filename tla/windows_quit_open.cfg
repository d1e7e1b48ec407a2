\* The program is started again while it is about to quit.
SPECIFICATION RelaunchSpec
CONSTANTS
  win = win  again = again  popup = popup  tools = tools  extra = extra
  Window = {win, again}
  Popup = {}
  Other = {}
  First = win
  Alloy = {win}
  OpenerOf <- DevToolsPopup
INVARIANTS
  QuitOnlyWhenAllClosed
CHECK_DEADLOCK FALSE
