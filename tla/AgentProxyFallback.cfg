SPECIFICATION ChatSpec
CONSTANTS
  Pages = {"page", "client"}
  Threads = {default}
  NoSession = NoSession
  MaxMessages <- MCMaxMessages
INVARIANT FallbackStartsSession
CHECK_DEADLOCK FALSE
