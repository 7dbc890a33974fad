SPECIFICATION ChatSpec
CONSTANTS
  Pages = {"page", "client"}
  Threads = {default}
  NoSession = NoSession
  MaxMessages <- MCMaxMessages
INVARIANT AskedOnce
PROPERTY MessagesAnswered
CHECK_DEADLOCK FALSE
