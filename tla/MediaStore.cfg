CONSTANTS
  Limit = 1
  MaxBody = 2
  MaxFiles = 4
  MinPhotos = 2
  MaxPhotos = 3
  MaxVideos = 1
  Concurrency = 2
  Erasers = {e1}
  Players = {p1}
SPECIFICATION Spec
INVARIANTS
  TypeOK
  OneResponse
  OversizedRefused
  RowsHaveObjects
  ObjectsHaveRows
  RefusedStoresNothing
  AnswerAgrees
  SpoolsOutlivePuts
  StreamsHoldNoConnection
PROPERTIES
  ImplementsLibrary
  UploadEnds
CHECK_DEADLOCK FALSE
