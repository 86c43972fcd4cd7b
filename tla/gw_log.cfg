\* Handlers, commands, the watchdog and the buttons around both locks and the queue of the log.
SPECIFICATION FairSpec
CONSTANTS
  QueueSize = 2
  Polls = 1
INVARIANTS
  TypeOK
PROPERTIES
  EachLineOnce
  PrintsWhole
  HandlerCompletes
  CommandCompletes
