\* Two browsers with one page each on one client handler with two query
\* handlers: committed navigations, a dying render process, closing.
SPECIFICATION ClientFairSpec
CONSTANTS
  b1 = b1  b2 = b2  p1 = p1  p2 = p2
  main = main  next = next  frame = frame  h1 = h1  h2 = h2
  Browser = {b1, b2}
  Process = {p1}
  Context = {main, next}
  MainFrame = {main, next}
  Handler = {h1, h2}
  BrowserOf <- TwoBrowsers
  ProcessOf <- SameProcess
  MaxId = 2
  Fault = {"navigate", "close", "crash"}
  Reentrant = FALSE
  MaxQueries = 1
  MaxCalls = 2
  MaxTasks = 0
INVARIANTS
  RouterServesOpenBrowsers
  NothingOutlivesRouter
PROPERTIES
  EveryOneShotRequestSettles
  RouterIsReleased
CHECK_DEADLOCK FALSE
