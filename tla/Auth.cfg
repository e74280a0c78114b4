\* Two requests at a time, two administrators or one and a registered key, one invitation.
SPECIFICATION Spec
CONSTANTS
  Keys = {k1, k2}
  Invites = {i1}
  Requests = {r1, r2}
  Legacy = Legacy
  None = None
INVARIANTS
  TypeOK
  OneKeyPerInvite
  ServedMeansEntitled
  KeysTraceToAdmins
  AdminRemains
PROPERTY
  RequestsAnswered
CHECK_DEADLOCK FALSE
