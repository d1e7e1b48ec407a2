\* The archive has no file for the request that made it load.
SPECIFICATION FairSpec
CONSTANTS
  r1 = r1  r2 = r2  content = content  dir = dir  zip = zip  app = app
  Req = {r1, r2}
  Provider = {zip}
  NoProvider = NoProvider
  OrderOf <- AppLast
  NameOf <- OwnName
  KindOf <- Kinds
  HasResource <- ZipFirst
  MaxCalls = 1
  AgainAlone = FALSE
  MayRelease = FALSE
  MaxRemovals = 0
PROPERTIES
  EveryRequestResumes
CHECK_DEADLOCK FALSE
