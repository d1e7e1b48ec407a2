\* A browser closes while another of the same client handler stays open.
SPECIFICATION ClientSpec
CONSTANTS
  b1 = b1  b2 = b2  p1 = p1  p2 = p2
  main = main  next = next  frame = frame  h1 = h1  h2 = h2
  Browser = {b1, b2}
  Process = {p1}
  Context = {main, next}
  MainFrame = {main, next}
  Handler = {h1}
  BrowserOf <- TwoBrowsers
  ProcessOf <- SameProcess
  MaxId = 2
  Fault = {"close"}
  Reentrant = FALSE
  MaxQueries = 1
  MaxCalls = 1
  MaxTasks = 0
INVARIANTS
  NoForgottenQuery
CHECK_DEADLOCK FALSE
