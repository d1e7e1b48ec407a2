\* One page, two handlers that call the router inside OnQuery, two queries,
\* navigations that commit or are abandoned.
SPECIFICATION Spec
CONSTANTS
  b1 = b1  b2 = b2  p1 = p1  p2 = p2
  main = main  next = next  frame = frame  h1 = h1  h2 = h2
  Browser = {b1}
  Process = {p1}
  Context = {main}
  MainFrame = {main}
  Handler = {h1, h2}
  BrowserOf <- SameBrowser
  ProcessOf <- SameProcess
  MaxId = 2
  Fault = {"navigate", "abort"}
  Reentrant = TRUE
  MaxQueries = 2
  MaxCalls = 2
  MaxTasks = 1
INVARIANTS
  TypeOK
  CallbackAttachedWhilePending
  QueryEndsOnce
PROPERTIES
  ImplementsLifecycle
SYMMETRY HandlerSymmetry
CONSTRAINT PostedCancelBound
CONSTRAINT DoubleAnswerBound
CHECK_DEADLOCK FALSE
