\* Three starts, with or without a stop in between, against three responses.
SPECIFICATION Spec
CONSTANTS
  Urls = {u1, u2}
  AnyUrl = AnyUrl
  MaxStarts = 3
  MaxResponses = 3
INVARIANTS
  TypeOK
  SignalMeansDownload
PROPERTY
  NothingMissed
CHECK_DEADLOCK FALSE
