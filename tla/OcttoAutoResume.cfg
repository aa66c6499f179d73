SPECIFICATION FairSpec
CONSTANTS
    Owners = {o1}
    Conversations = {c1, c2}
    QuestionIds = {q1, q2, q3}
    NoOwner = NoOwner
    MaxAttempts = 3
 
PROPERTIES BatchesKeepTheirQuestions AnswersSettle
CHECK_DEADLOCK FALSE
