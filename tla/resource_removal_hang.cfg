\* An identifier is removed twice while its provider has a pending request.
SPECIFICATION FairSpec
CONSTANTS
  r1 = r1  r2 = r2  content = content  dir = dir  zip = zip  app = app
  Req = {r1}
  Provider = {app}
  NoProvider = NoProvider
  OrderOf <- AppLast
  NameOf <- OwnName
  KindOf <- Kinds
  HasResource <- HasNone
  MaxCalls = 1
  AgainAlone = FALSE
  MayRelease = FALSE
  MaxRemovals = 2
PROPERTIES
  RemovalReturns
CHECK_DEADLOCK FALSE
