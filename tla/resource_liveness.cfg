\* Requests resume and removals return, if nothing is removed a second time.
SPECIFICATION FairSpec
CONSTANTS
  r1 = r1  r2 = r2  content = content  dir = dir  zip = zip  app = app
  Req = {r1}
  Provider = {content, dir, zip, app}
  NoProvider = NoProvider
  OrderOf <- AppLast
  NameOf <- OwnName
  KindOf <- Kinds
  HasResource <- ZipAll
  MaxCalls = 1
  AgainAlone = FALSE
  MayRelease = FALSE
  MaxRemovals = 1
PROPERTIES
  EveryRequestResumes
  RemovalReturns
CHECK_DEADLOCK FALSE
