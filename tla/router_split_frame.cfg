\* The sub-frame lives in a process of its own, which counts its own IDs.
SPECIFICATION Spec
CONSTANTS
  b1 = b1  b2 = b2  p1 = p1  p2 = p2
  main = main  next = next  frame = frame  h1 = h1  h2 = h2
  Browser = {b1}
  Process = {p1, p2}
  Context = {main, frame}
  MainFrame = {main}
  Handler = {h1}
  BrowserOf <- SameBrowser
  ProcessOf <- SplitFrame
  MaxId = 2
  Fault = {}
  Reentrant = FALSE
  MaxQueries = 2
  MaxCalls = 1
  MaxTasks = 0
INVARIANTS
  EveryRequestIsCarriedOnce
CHECK_DEADLOCK FALSE
