CONSTANTS
    s1 = s1
    s2 = s2
    Sessions = {s1, s2}
    Texts <- SomeTexts
    MaxConns = 1
    MaxRows = 1
SPECIFICATION FairSpec
INVARIANTS
    TypeOK
    ReplyWellFormed
    AcknowledgedIsDone
    ConnectionsComeBack
    TransactionsStayOut
PROPERTIES
    CommandsAnswered
CHECK_DEADLOCK FALSE
