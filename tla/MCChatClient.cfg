SPECIFICATION FairSpec
CONSTANTS
  Gid = {1}
  MaxWindows = 2
  NUMBER_OF_MSGS = 3
  FileLen = 1
  MaxTyped = 2
  MaxOthers = 1
  MaxChats = 2
INVARIANTS TypeOK  WindowChatAfterJoin StreamsParsed ShownInOrder
PROPERTIES ChatsShown
CHECK_DEADLOCK FALSE
