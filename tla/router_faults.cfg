\* Two main-frame pages of one browser, one after the other, with committed
\* navigations, a dying render process and the browser closing.
SPECIFICATION Spec
CONSTANTS
  b1 = b1  b2 = b2  p1 = p1  p2 = p2
  main = main  next = next  frame = frame  h1 = h1  h2 = h2
  Browser = {b1}
  Process = {p1}
  Context = {main, next}
  MainFrame = {main, next}
  Handler = {h1}
  BrowserOf <- SameBrowser
  ProcessOf <- SameProcess
  MaxId = 2
  Fault = {"navigate", "close", "crash"}
  Reentrant = FALSE
  MaxQueries = 2
  MaxCalls = 1
  MaxTasks = 0
INVARIANTS
  EveryRequestIsCarriedOnce
  NoForgottenQuery
  AnswerReachesItsRequest
  PendingHandlersRegistered
VIEW WithoutHistories
CHECK_DEADLOCK FALSE
