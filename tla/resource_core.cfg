\* Two requests; two of a directory, an archive and a provider of the
\* application; one removal; the manager may go away.
SPECIFICATION Spec
CONSTANTS
  r1 = r1  r2 = r2  content = content  dir = dir  zip = zip  app = app
  Req = {r1, r2}
  Provider = {dir, zip, app}
  NoProvider = NoProvider
  OrderOf <- AppLast
  NameOf <- OwnName
  KindOf <- Kinds
  HasResource <- OneEach
  MaxCalls = 2
  AgainAlone = TRUE
  MayRelease = TRUE
  MaxRemovals = 1
CONSTRAINT TwoProviders
CONSTRAINT DoubleCallBound
INVARIANTS
  TypeOK
  StateOnLiveEntry
  MarkedEntryIsInUse
  RemovedProviderHoldsNoRequest
  HeldRequestsAreCarried
PROPERTIES
  ImplementsResourceLoad
  OffersInOrder
CHECK_DEADLOCK FALSE
