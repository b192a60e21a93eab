SPECIFICATION FairSpec
CONSTANTS
  KBD_BUF_SIZE = 3
  EVQ_CAPACITY = 2
  MaxKeys = 3
INVARIANT KeyboardIsSound
PROPERTIES
 TakenKeysDoNotLeak
 ImplementsDropNewest
  TypedIsTaken
  EventIsTaken
