SPECIFICATION Spec
CONSTANTS
  Clients = {web, agent}
  Ids = {n1, n2}
  Contents = {a, b}
  NoVersion = NoVersion
  NoNote = NoNote
  NoRequest = NoRequest
  MaxVersion = 2
INVARIANTS
  TypeOK
  VersionIdentifiesContent
  RetryAppliesOnce
PROPERTIES
  VersionedUpdateReplacesSeen
  DeletedStaysDeleted
CHECK_DEADLOCK FALSE
