CONSTANTS
  MaxChunk = 2
  Sizes = {1, 2}
  Numbers = 4
  MaxCommands = 2
  MaxConnects = 2
SPECIFICATION FairSpec
INVARIANTS TypeOK InSync AnswersOwnCommand CommandsAuthenticated
PROPERTIES OperationEnds
CHECK_DEADLOCK FALSE
