\* The callback list, the external message pump and the image cache.
SPECIFICATION PartsSpec
CONSTANTS
  c1 = c1  c2 = c2  c3 = c3
  l1 = l1  l2 = l2
  i1 = i1  i2 = i2
  Callback = {c1, c2, c3}
  Once = FALSE
  MaxDepth = 2
  MaxMessages = 3
  DrainRounds = 10
  Load = {l1, l2}
  ImageId = {i1, i2}
  MaxImages = 2
  Reps = 2
INVARIANTS
  IteratorsAreValid
  NoNullIsLeft
  AlwaysWakes
  UrgentWorkIsNotDelayed
  CallbackRunsOnce
  AnsweredImagesAreCached
  AnswersComeFromLoads
PROPERTIES
  NoCallbackIsSkipped
  PumpServesRequests
  CachedImageStays
CHECK_DEADLOCK FALSE
