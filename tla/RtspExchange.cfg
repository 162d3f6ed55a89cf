SPECIFICATION Spec
CONSTANTS
    Limit = 3
    Bodies <- SomeBodies
    BodyLimit = 2
    AnswerBodies = {2}
    AnswerHeader = 7
    LengthAt = 2
    MaxText = 37
INVARIANT ServedAsSent
PROPERTIES AnswersInOrder TornServesNothing UpIsAStream Answered
CHECK_DEADLOCK FALSE
